---- MODULE Spec2Model ----
(***************************************************************************)
(* Model of the /api/restaurants route handler (GET) and of the place      *)
(* enrichment cache getOrCachePlacePhotos.  A request is a GET invocation; *)
(* every await of the handler is a point at which the other requests, the  *)
(* store, the provider and the clock may take a step.  Time is counted in  *)
(* days.  The store is the pair of tables "places" and "place_photos".     *)
(***************************************************************************)
EXTENDS Integers, Sequences, FiniteSets, TLC

\* ---------------------------------------------------------------- bounds
MaxTime == 34
TickDays == 16
MaxFaults == 2
MaxStarts == 3
BatchFaults == 1
MaxSaved == 5
MaxCandidates == 22
MaxCount == 6
MaxMixed == 3
MaxCalls == 3

\* ------------------------------------------------------ program constants
TTL_DAYS == 30
BATCH_SIZE == 5
\* MAX_PHOTOS one too high.
MaxPhotosOneMore == 4 + 1

MAX_PHOTOS == 4
PHOTO_RETRIES == 2
\* MIN_CACHED one too high.
MinCachedOneMore == 5 + 1

MIN_CACHED == 5
MAX_PLACES == 60
MAX_EXTRA_PAGES == 2
MIN_RADIUS == 200
MAX_RADIUS == 5000
PAGE_DELAY_MS == 2000
RETRY_DELAY_MS == 100
PHOTO_TIMEOUT_MS == 10000

Null == "null"

Requests == {"r1", "r2"}
PlaceOrder == <<"p1", "p2", "p3", "p4", "p5", "p6", "p7">>
Places == {PlaceOrder[n] : n \in 1..Len(PlaceOrder)}

Min(a, b) == IF a < b THEN a ELSE b
Max(a, b) == IF a > b THEN a ELSE b
Abs(a) == IF a < 0 THEN 0 - a ELSE a

\* ------------------------------------------------------------- provider
\* The keywords found in the type tags the provider reports for a place
\* (GooglePlace.types).
PlaceTypes(p) ==
  CASE p = "p1" -> {"restaurant", "mexican"}
    [] p = "p2" -> {"restaurant", "pizza"}
    [] OTHER    -> {"restaurant"}

\* Photo references of a place in a nearby-search result (GooglePlace.photos).
NearbyPhotos(p) ==
  CASE p = "p1" -> << >>
    [] p = "p6" -> << >>
    [] p = "p7" -> <<"a", "b", "c", "d", "e">>
    [] OTHER    -> <<"a">>

\* Photo references of a place in a place-details result (result.photos).
DetailsPhotos(p) ==
  CASE p = "p1" -> <<"a", "b">>
    [] p = "p6" -> << >>
    [] OTHER    -> <<"a">>

\* geometry.location of a place, in 1e-4 degrees.
PlaceLat(p) ==
  CASE p = "p1" -> 10 [] p = "p2" -> 20 [] p = "p5" -> 108 [] p = "p7" -> 200 [] OTHER -> 30
PlaceLon(p) ==
  CASE p = "p1" -> 10 [] p = "p2" -> 0 [] p = "p5" -> 0 [] p = "p7" -> 0 [] OTHER -> 5

\* Query coordinates (lat, lon parameters), in 1e-4 degrees.
CenterLat(c) == 0
CenterLon(c) == 0

\* The pages the provider's nearby search serves around a query coordinate.
NearbyPages(c) ==
  CASE c = "c1" -> << <<"p1">> >>
    [] c = "c2" -> << <<"p2">>, <<"p2">> >>
    [] c = "c3" -> << <<"p6">> >>
    [] c = "c4" -> << <<"p2">>, <<"p3">>, <<"p2">>, <<"p4">> >>
    [] c = "c6" -> << <<"p2", "p3", "p4", "p5", "p6", "p1">> >>
    [] c = "c7" -> << <<"p2", "p7">> >>
    [] OTHER    -> << << >> >>

\* The data URL the photo endpoint serves for a photo reference.
Img(ref) ==
  CASE ref = "a" -> "data_a" [] ref = "b" -> "data_b" [] ref = "c" -> "data_c"
    [] ref = "d" -> "data_d" [] OTHER -> "data_x"

\* ------------------------------------------------------ pure helpers
getCuisineFallbackImageFromTypes(types) ==
  LET has(w) == w \in types IN
  IF has("mexican") THEN "fb_mexican"
  ELSE IF has("sushi") \/ has("japanese") THEN "fb_japanese"
  ELSE IF has("chinese") THEN "fb_pizza"
  ELSE IF has("indian") THEN "fb_indian"
  ELSE IF has("pizza") \/ has("italian") THEN "fb_pizza"
  ELSE IF has("burger") THEN "fb_burger"
  ELSE "fb_default"

Fallback(p) == getCuisineFallbackImageFromTypes(PlaceTypes(p))

\* entries.map(image_base64).slice(0, 4)
AllUrls(gallery) == [n \in 1..Min(MAX_PHOTOS, Len(gallery)) |-> Img(gallery[n])]
\* allUrls.length > 1 ? allUrls.slice(1, 4) : []
GalleryWithoutCover(urls) ==
  IF Len(urls) > 1 THEN SubSeq(urls, 2, Min(4, Len(urls))) ELSE << >>

\* ---------------------------------------------------------------- store
NoRow == [present |-> FALSE, cover |-> Null, coverRef |-> Null, gallery |-> << >>,
          phone |-> Null, website |-> Null, hours |-> Null, reviews |-> Null,
          lu |-> 0, exp |-> 0]

NoDetails == [phone |-> Null, website |-> Null, hours |-> Null, reviews |-> Null]
FullDetails == [phone |-> "v", website |-> "v", hours |-> "v", reviews |-> "v"]
\* The contact data a successful place-details call carries for a place;
\* "v" is a list of one review, "v7" of seven, "v5" the first five of "v7".
DetailsData(p) ==
  IF p \in {"p1", "p6"} THEN FullDetails
  ELSE IF p = "p7" THEN [FullDetails EXCEPT !.reviews = "v7"]
  ELSE NoDetails

\* reviews.length
ReviewCount(reviews) ==
  CASE reviews = "v" -> 1 [] reviews = "v5" -> 5 [] reviews = "v7" -> 7 [] OTHER -> 0

\* Array.isArray(result.reviews) && length > 0 ? result.reviews.slice(0, 5) : undefined
SliceReviews(reviews) == IF ReviewCount(reviews) > 5 THEN "v5" ELSE reviews

NoResult == [id |-> Null, image |-> Null, gallery |-> << >>, dist |-> 0, isNew |-> FALSE,
             phone |-> Null, website |-> Null, hours |-> Null, reviews |-> Null]

IdleProc == [pc |-> "idle", place |-> Null, dist |-> 0, photos |-> << >>, existing |-> NoRow,
             valid |-> FALSE, complete |-> FALSE, det |-> NoDetails,
             i |-> 0, retries |-> 0, entries |-> << >>, builtAt |-> 0, idx |-> 0,
             result |-> NoResult, calls |-> 0, writes |-> 0, pre |-> FALSE,
             wfail |-> FALSE, err |-> Null, tries |-> 0, elapsed |-> 0, timer |-> 0]

IdleReq == [pc |-> "idle", status |-> 0, cached |-> << >>, lookupAt |-> 0,
            places |-> << >>, all |-> << >>, page |-> 0, i |-> 0, stores |-> << >>,
            token |-> FALSE, timer |-> 0, radius |-> [nan |-> FALSE, val |-> 0]]

VARIABLES
  now,          \* the clock, in days
  apiKey,       \* whether GOOGLE_PLACES_API_KEY is set
  reqIn,        \* the query parameters of each client
  req,          \* the GET invocation of each client
  proc,         \* per request, the processPlace call of each candidate
  places,       \* table "places", keyed by source_place_id
  place_photos, \* table "place_photos", keyed by (place, source_photo_id)
  coverUntil,   \* ghost: per place, the latest expires_at stored with a cover
  faults,       \* failures the environment may still inject
  starts,       \* per client, the GET invocations still to come
  client        \* the page that shows the recommendations

vars == <<now, apiKey, reqIn, req, proc, places, place_photos, coverUntil, faults, starts,
          client>>

\* ------------------------------------------- getOrCachePlacePhotos, steps
\* The PlaceDetails value returned for place p.
PlaceData(p, cover, gallery, d) ==
  [id |-> p, image |-> cover, gallery |-> gallery, dist |-> 0, isNew |-> FALSE,
   phone |-> d.phone, website |-> d.website, hours |-> d.hours, reviews |-> d.reviews]

\* processPlace resolves with the FoodStore built from the place data.
Settle(q, data) ==
  [IdleProc EXCEPT !.pc = "fulfilled", !.place = q.place, !.dist = q.dist,
                   !.result = [data EXCEPT !.dist = q.dist],
                   !.calls = q.calls, !.writes = q.writes, !.pre = q.pre,
                   !.wfail = q.wfail]

Fulfil(q, cover, gallery, d) == Settle(q, PlaceData(q.place, cover, gallery, d))

\* a ?? b on a nullable column
Coalesce(a, b) == IF a # Null THEN a ELSE b

\* existing.expires_at ? expires_at > now : cacheAge < 30
IsCacheValid(ex, t) == ex.present /\ ex.exp > t

\* HasCompleteCache that also asks for a cover image.
HasCompleteCacheAndCover(ex, valid) ==
  /\ ex.present /\ ex.phone # Null /\ ex.website # Null
  /\ ex.hours # Null /\ ex.reviews # Null /\ valid /\ ex.cover # Null

\* existing && phone && website_url && opening_hours && reviews && isCacheValid
HasCompleteCache(ex, valid) ==
  /\ ex.present /\ ex.phone # Null /\ ex.website # Null
  /\ ex.hours # Null /\ ex.reviews # Null /\ valid

RowDetails(ex) ==
  [phone |-> ex.phone, website |-> ex.website, hours |-> ex.hours, reviews |-> ex.reviews]

\* The end of the photo loop: nothing fetched -> fallback, no write;
\* otherwise the upsert of the place record is issued.
AfterLoop(q, t) ==
  IF Len(q.entries) = 0
  THEN Fulfil(q, Fallback(q.place), << >>, q.det)
  ELSE [q EXCEPT !.pc = "upsert", !.builtAt = t, !.writes = q.writes + 1]

\* LoopNext that leaves the loop when a photo has been given up.
LoopNextBreaks(q, t) ==
  IF q.i + 1 <= Min(MAX_PHOTOS, Len(q.photos)) /\ ~(q.i > 0 /\ q.retries = 0)
  THEN [q EXCEPT !.pc = "photo", !.i = q.i + 1, !.retries = PHOTO_RETRIES,
                 !.calls = q.calls + 1, !.tries = 1]
  ELSE AfterLoop(q, t)

\* The loop header after photo q.i is done with: the next reference is
\* fetched, or the loop ends.
LoopNext(q, t) ==
  IF q.i + 1 <= Min(MAX_PHOTOS, Len(q.photos))
  THEN [q EXCEPT !.pc = "photo", !.i = q.i + 1, !.retries = PHOTO_RETRIES,
                 !.calls = q.calls + 1, !.tries = 1]
  ELSE AfterLoop(q, t)

\* The fetch of photo q.i has its data URL: it joins galleryEntries.
PhotoFetched(q, t) ==
  LoopNext([q EXCEPT !.entries = Append(q.entries, q.photos[q.i]),
                     !.err = Null, !.tries = 0, !.elapsed = 0], t)

\* An attempt at photo q.i threw: another attempt after the pause while
\* retries are left, otherwise the reason is logged and the photo dropped.
PhotoFailed(q, reason, t) ==
  IF q.retries - 1 = 0
  THEN LoopNext([q EXCEPT !.retries = 0, !.err = Null, !.tries = 0, !.elapsed = 0], t)
  ELSE [q EXCEPT !.retries = q.retries - 1, !.pc = "retry_delay", !.err = reason,
                 !.elapsed = 0, !.timer = RETRY_DELAY_MS]

\* The code that follows the place-details stage.
AfterDetails(q, t) ==
  LET ex == q.existing
      hasCachedPhotos == ex.cover # Null /\ Len(ex.gallery) > 0 /\ q.valid
      urls == AllUrls(ex.gallery)
  IN
  IF hasCachedPhotos /\ Len(q.photos) > 0
  THEN IF ~q.complete /\ (q.det.phone # Null \/ q.det.website # Null \/ q.det.hours # Null)
       THEN [q EXCEPT !.pc = "update", !.builtAt = t, !.writes = q.writes + 1]
       ELSE Fulfil(q, ex.cover, GalleryWithoutCover(urls),
                   [f \in DOMAIN NoDetails |-> Coalesce(q.det[f], ex[f])])
  ELSE IF Len(q.photos) = 0
  THEN [q EXCEPT !.pc = "upsert0", !.builtAt = t, !.writes = q.writes + 1]
  ELSE LoopNext([q EXCEPT !.i = 0, !.entries = << >>], t)

\* The record the photo-less upsert leaves in "places": the payload has no
\* google_photo_reference, so on conflict that column keeps its value.
Upsert0Row(q, old) ==
  [present |-> TRUE, cover |-> Null, coverRef |-> old.coverRef, gallery |-> << >>,
   phone |-> q.det.phone, website |-> q.det.website, hours |-> q.det.hours,
   reviews |-> q.det.reviews, lu |-> q.builtAt, exp |-> q.builtAt + TTL_DAYS]

\* UpsertRow that sets expires_at only when the record is new.
UpsertRowKeepsExpiry(q) ==
  [present |-> TRUE, cover |-> Img(q.entries[1]), coverRef |-> q.entries[1],
   gallery |-> q.entries,
   phone |-> q.det.phone, website |-> q.det.website, hours |-> q.det.hours,
   reviews |-> q.det.reviews, lu |-> q.builtAt,
   exp |-> IF q.existing.present THEN q.existing.exp ELSE q.builtAt + TTL_DAYS]

\* The record the upsert with photos leaves in "places".
UpsertRow(q) ==
  [present |-> TRUE, cover |-> Img(q.entries[1]), coverRef |-> q.entries[1],
   gallery |-> q.entries,
   phone |-> q.det.phone, website |-> q.det.website, hours |-> q.det.hours,
   reviews |-> q.det.reviews, lu |-> q.builtAt, exp |-> q.builtAt + TTL_DAYS]

\* The record the details-only update leaves in "places".
UpdateRow(q, old) ==
  [old EXCEPT !.phone = Coalesce(q.det.phone, q.existing.phone),
              !.website = Coalesce(q.det.website, q.existing.website),
              !.hours = Coalesce(q.det.hours, q.existing.hours),
              !.reviews = Coalesce(q.det.reviews, q.existing.reviews),
              !.lu = q.builtAt, !.exp = q.builtAt + TTL_DAYS]

SetProc(r, k, q) == proc' = [proc EXCEPT ![r][k] = q]

Fault == /\ faults > 0
         /\ faults' = faults - 1

\* The select of the cached record returns; the cache-hit test, and the
\* place-details call when the cached data is not complete.
SelectReturns(r, k) ==
  LET q == proc[r][k] IN
  /\ q.pc = "select"
  /\ \E ex \in {places[q.place], NoRow} :
       /\ IF ex = places[q.place] THEN faults' = faults ELSE Fault
       /\ LET valid == IsCacheValid(ex, now)
              complete == HasCompleteCache(ex, valid)
              q1 == [q EXCEPT !.existing = ex, !.valid = valid, !.complete = complete,
                              !.pre = (ex.present /\ now < coverUntil[q.place])]
              urls == AllUrls(ex.gallery)
          IN
          IF ex.cover # Null /\ valid
          THEN SetProc(r, k, Fulfil(q1, ex.cover, GalleryWithoutCover(urls), RowDetails(ex)))
          ELSE IF ~complete
          THEN SetProc(r, k, [q1 EXCEPT !.pc = "details", !.calls = q.calls + 1])
          ELSE SetProc(r, k, AfterDetails(q1, now))
  /\ UNCHANGED <<now, apiKey, reqIn, req, places, place_photos, coverUntil, starts, client>>

\* An exception escapes processPlace: its promise rejects.
ProcessPlaceThrows(r, k) ==
  /\ proc[r][k].pc = "select"
  /\ Fault
  /\ SetProc(r, k, [IdleProc EXCEPT !.pc = "rejected", !.place = proc[r][k].place])
  /\ UNCHANGED <<now, apiKey, reqIn, req, places, place_photos, coverUntil, starts, client>>

\* The place-details call returns: a result, or a failure (non-2xx, network
\* error), which leaves placeDetails empty.
DetailsReturns(r, k) ==
  LET q == proc[r][k] IN
  /\ q.pc = "details"
  /\ \/ LET d == [DetailsData(q.place) EXCEPT !.reviews = SliceReviews(@)]
              dp == DetailsPhotos(q.place)
              photos == IF Len(dp) > 0 /\ Len(q.photos) = 0 THEN dp
                        ELSE IF Len(dp) > Len(q.photos) THEN dp
                        ELSE q.photos
          IN /\ SetProc(r, k, AfterDetails([q EXCEPT !.det = d, !.photos = photos], now))
             /\ faults' = faults
     \/ /\ Fault
        /\ SetProc(r, k, AfterDetails(q, now))
  /\ UNCHANGED <<now, apiKey, reqIn, req, places, place_photos, coverUntil, starts, client>>

\* The fetch of a photo answers before its timer fires: with the image
\* (headers and body), with a non-2xx status or a network error, or with
\* the headers only, which clears the timer while the body is still read.
PhotoReturns(r, k) ==
  LET q == proc[r][k] IN
  /\ q.pc = "photo"
  /\ \/ /\ SetProc(r, k, PhotoFetched(q, now))
        /\ faults' = faults
     \/ /\ Fault
        /\ SetProc(r, k, PhotoFailed(q, "failed", now))
     \/ /\ Fault
        /\ SetProc(r, k, [q EXCEPT !.pc = "photo_body"])
  /\ UNCHANGED <<now, apiKey, reqIn, req, places, place_photos, coverUntil, starts, client>>

\* The 10 second timer of a photo fetch fires before the fetch answered:
\* the fetch is aborted and the attempt fails with the timeout reason.
PhotoTimeout(r, k) ==
  LET q == proc[r][k] IN
  /\ q.pc = "photo"
  /\ Fault
  /\ SetProc(r, k, PhotoFailed(q, "timeout", now))
  /\ UNCHANGED <<now, apiKey, reqIn, req, places, place_photos, coverUntil, starts, client>>

\* The body of a photo arrives, or reading it fails.
PhotoBodyReturns(r, k) ==
  LET q == proc[r][k] IN
  /\ q.pc = "photo_body"
  /\ \/ /\ SetProc(r, k, PhotoFetched(q, now))
        /\ faults' = faults
     \/ /\ Fault
        /\ SetProc(r, k, PhotoFailed(q, "failed", now))
  /\ UNCHANGED <<now, apiKey, reqIn, req, places, place_photos, coverUntil, starts, client>>

\* 10 seconds have passed since a photo fetch was issued whose body is
\* still being read: its timer was cleared, nothing happens.
TenSecondsPass(r, k) ==
  LET q == proc[r][k] IN
  /\ q.pc = "photo_body"
  /\ q.elapsed < PHOTO_TIMEOUT_MS
  /\ SetProc(r, k, [q EXCEPT !.elapsed = PHOTO_TIMEOUT_MS])
  /\ UNCHANGED <<now, apiKey, reqIn, req, places, place_photos, coverUntil, faults, starts, client>>

\* The 100 ms pause before a retry is over: the photo is fetched again.
RetryDelayElapses(r, k) ==
  LET q == proc[r][k] IN
  /\ q.pc = "retry_delay"
  /\ SetProc(r, k, [q EXCEPT !.pc = "photo", !.calls = q.calls + 1, !.tries = q.tries + 1,
                             !.timer = 0])
  /\ UNCHANGED <<now, apiKey, reqIn, req, places, place_photos, coverUntil, faults, starts, client>>

\* The store answers the photo-less upsert (or the details-only update).
PlaceWriteReturns(r, k) ==
  LET q == proc[r][k]
      old == places[q.place]
      ex == q.existing
  IN
  /\ q.pc \in {"upsert0", "update"}
  /\ \/ /\ faults' = faults
        /\ places' = [places EXCEPT ![q.place] =
                        IF q.pc = "upsert0" THEN Upsert0Row(q, old)
                        ELSE IF old.present THEN UpdateRow(q, old) ELSE old]
     \/ /\ Fault
        /\ places' = places
  /\ LET q1 == [q EXCEPT !.wfail = (faults' # faults)] IN
     IF q.pc = "upsert0"
     THEN SetProc(r, k, Fulfil(q1, Fallback(q.place), << >>, q.det))
     ELSE SetProc(r, k, Fulfil(q1, ex.cover, GalleryWithoutCover(AllUrls(ex.gallery)),
                               [f \in DOMAIN NoDetails |-> Coalesce(q.det[f], ex[f])]))
  /\ UNCHANGED <<now, apiKey, reqIn, req, place_photos, coverUntil, starts, client>>

\* What getOrCachePlacePhotos returns after a fetch of photos.
FetchedData(q) ==
  PlaceData(q.place, Img(q.entries[1]),
            [n \in 1..(Min(4, Len(q.entries)) - 1) |-> Img(q.entries[n + 1])], q.det)

\* UpsertReturns in which a store error is thrown instead of logged.
UpsertReturnsThrows(r, k) ==
  LET q == proc[r][k] IN
  /\ q.pc = "upsert"
  /\ \/ /\ faults' = faults
        /\ places' = [places EXCEPT ![q.place] = UpsertRow(q)]
        /\ coverUntil' = [coverUntil EXCEPT ![q.place] = Max(@, q.builtAt + TTL_DAYS)]
        /\ SetProc(r, k, [q EXCEPT !.pc = "photo_upsert", !.idx = 1, !.writes = q.writes + 1])
     \/ /\ Fault
        /\ UNCHANGED <<places, coverUntil>>
        /\ SetProc(r, k, [IdleProc EXCEPT !.pc = "rejected", !.place = q.place, !.wfail = TRUE])
  /\ UNCHANGED <<now, apiKey, reqIn, req, place_photos, starts, client>>

\* The store answers the upsert of the place record: with the row id, and
\* the photo upserts begin, or with an error, and they are skipped.
UpsertReturns(r, k) ==
  LET q == proc[r][k] IN
  /\ q.pc = "upsert"
  /\ \/ /\ faults' = faults
        /\ places' = [places EXCEPT ![q.place] = UpsertRow(q)]
        /\ coverUntil' = [coverUntil EXCEPT ![q.place] = Max(@, q.builtAt + TTL_DAYS)]
        /\ SetProc(r, k, [q EXCEPT !.pc = "photo_upsert", !.idx = 1, !.writes = q.writes + 1])
     \/ /\ Fault
        /\ UNCHANGED <<places, coverUntil>>
        /\ SetProc(r, k, Settle([q EXCEPT !.wfail = TRUE], FetchedData(q)))
  /\ UNCHANGED <<now, apiKey, reqIn, req, place_photos, starts, client>>

\* The store answers the upsert of photo q.idx; is_primary is index === 0.
PhotoUpsertReturns(r, k) ==
  LET q == proc[r][k] IN
  /\ q.pc = "photo_upsert"
  /\ \/ /\ faults' = faults
        /\ place_photos' = [place_photos EXCEPT ![q.place][q.entries[q.idx]] =
                              IF q.idx = 1 THEN "primary" ELSE "other"]
     \/ /\ Fault
        /\ place_photos' = place_photos
  /\ LET q1 == [q EXCEPT !.wfail = q.wfail \/ faults' # faults] IN
     IF q.idx < Len(q.entries)
     THEN SetProc(r, k, [q1 EXCEPT !.idx = q.idx + 1, !.writes = q.writes + 1])
     ELSE SetProc(r, k, Settle(q1, FetchedData(q)))
  /\ UNCHANGED <<now, apiKey, reqIn, req, places, coverUntil, starts, client>>

\* ------------------------------------------------------------ GET, steps
\* Query parameters are texts, here sequences of characters.  parseFloat
\* skips leading white space and reads the longest prefix that is a number
\* (a sign, decimal digits and a fraction, for the texts of this model);
\* whatever follows the prefix is ignored, and the value is NaN without a
\* digit.  The value read is val / 10^scale.
Digits == {"0", "1", "2", "3", "4", "5", "6", "7", "8", "9"}
DigitVal(ch) ==
  CASE ch = "0" -> 0 [] ch = "1" -> 1 [] ch = "2" -> 2 [] ch = "3" -> 3 [] ch = "4" -> 4
    [] ch = "5" -> 5 [] ch = "6" -> 6 [] ch = "7" -> 7 [] ch = "8" -> 8 [] OTHER -> 9

NaN == [nan |-> TRUE, val |-> 0]

RECURSIVE TrimStart(_)
TrimStart(s) == IF s # << >> /\ Head(s) = " " THEN TrimStart(Tail(s)) ELSE s

RECURSIVE ReadDigits(_, _)
ReadDigits(s, acc) ==
  IF s # << >> /\ Head(s) \in Digits
  THEN ReadDigits(Tail(s), [n |-> acc.n + 1, val |-> acc.val * 10 + DigitVal(Head(s))])
  ELSE acc

Pow10(n) == CASE n = 0 -> 1 [] n = 1 -> 10 [] n = 2 -> 100 [] OTHER -> 1000

parseFloat(text) ==
  LET s == TrimStart(text)
      signed == s # << >> /\ Head(s) \in {"-", "+"}
      body == IF signed THEN Tail(s) ELSE s
      d == ReadDigits(body, [n |-> 0, val |-> 0])
      rest == SubSeq(body, d.n + 1, Len(body))
      f == IF rest # << >> /\ Head(rest) = "."
           THEN ReadDigits(Tail(rest), [n |-> 0, val |-> 0])
           ELSE [n |-> 0, val |-> 0]
      mantissa == d.val * Pow10(f.n) + f.val
  IN IF d.n + f.n = 0 THEN NaN
     ELSE [nan |-> FALSE, val |-> IF Head(s) = "-" THEN 0 - mantissa ELSE mantissa,
           scale |-> f.n]

\* parseInt(text, 10): leading white space, a sign and the longest prefix of
\* decimal digits; NaN without a digit.
parseInt(text) ==
  LET s == TrimStart(text)
      signed == s # << >> /\ Head(s) \in {"-", "+"}
      d == ReadDigits(IF signed THEN Tail(s) ELSE s, [n |-> 0, val |-> 0])
  IN IF d.n = 0 THEN NaN
     ELSE [nan |-> FALSE, val |-> IF Head(s) = "-" THEN 0 - d.val ELSE d.val]

\* parseInt(searchParams.get("radius") || "2000", 10): the empty text stands
\* for a missing parameter.
Radius(in) == parseInt(IF in.radius = << >> THEN <<"2", "0", "0", "0">> ELSE in.radius)

\* Number.isFinite(lat) && Number.isFinite(lon)
CoordsFinite(in) == ~parseFloat(in.lat).nan /\ ~parseFloat(in.lon).nan

\* haversineMeters from the query coordinate to a place, in meters.
haversineMeters(c, p) ==
  CASE p = "p1" -> 157 [] p = "p2" -> 222 [] p = "p5" -> 1201 [] p = "p7" -> 2224
    [] OTHER -> 338

\* parseFloat(formatDistance(meters)), in tenths: "338 m away" reads 338,
\* "1.2 km away" reads 1.2.
getMeters(meters) ==
  IF meters < 1000 THEN 10 * meters ELSE (meters + 50) \div 100

\* Array.prototype.sort with the comparator getMeters(a) - getMeters(b):
\* a stable sort, here by insertion.
RECURSIVE InsertSorted(_, _)
InsertSorted(sorted, s) ==
  IF sorted = << >> THEN <<s>>
  ELSE IF getMeters(sorted[Len(sorted)].dist) <= getMeters(s.dist) THEN Append(sorted, s)
  ELSE Append(InsertSorted(SubSeq(sorted, 1, Len(sorted) - 1), s), sorted[Len(sorted)])

RECURSIVE SortStores(_)
SortStores(stores) ==
  IF stores = << >> THEN << >>
  ELSE InsertSorted(SortStores(SubSeq(stores, 1, Len(stores) - 1)), stores[Len(stores)])

\* stores.map((s, idx) => ({...s, isNew: idx === 0}))
Restaurants(stores) == [n \in 1..Len(stores) |-> [stores[n] EXCEPT !.isNew = (n = 1)]]

\* InBox that compares the longitude only.
InBoxLonOnly(c, radius, p) ==
  /\ ~radius.nan
  /\ Abs(PlaceLon(p) - CenterLon(c)) * 111 <= radius.val * 12

\* The bounding box of the cache lookup: latDelta = radius * 1.2 / 111000
\* degrees; the query coordinates of the model lie on the equator, where
\* lonDelta = latDelta.  No comparison with NaN holds.
InBox(c, radius, p) ==
  /\ ~radius.nan
  /\ Abs(PlaceLat(p) - CenterLat(c)) * 111 <= radius.val * 12
  /\ Abs(PlaceLon(p) - CenterLon(c)) * 111 <= radius.val * 12

\* Math.max(200, Math.min(5000, radius)); Math.min and Math.max return NaN
\* when an argument is NaN.
ClampRadius(radius) ==
  IF radius.nan THEN NaN
  ELSE [nan |-> FALSE, val |-> Max(MIN_RADIUS, Min(MAX_RADIUS, radius.val))]

\* The rows of "places" that match the filters of the cache lookup, in
\* table order.
RECURSIVE MatchingRows(_, _, _, _)
MatchingRows(n, c, radius, cutoff) ==
  IF n = 0 THEN << >>
  ELSE LET p == PlaceOrder[n]
           row == places[p]
           rest == MatchingRows(n - 1, c, radius, cutoff)
       IN IF /\ row.present /\ InBox(c, radius, p)
             /\ row.cover # Null /\ row.lu > cutoff
          THEN Append(rest, [id |-> p, photos |-> row.gallery, exp |-> row.exp])
          ELSE rest

\* .limit(60)
LimitRows(rows) == SubSeq(rows, 1, Min(MAX_PLACES, Len(rows)))

\* SelectCached without the last_updated_at filter.
SelectCachedAnyAge(n, c, radius, cutoff) ==
  LimitRows(MatchingRows(n, c, radius, 0 - 1))

\* The rows the cache lookup selects, in table order, at most 60.
SelectCached(n, c, radius, cutoff) ==
  LimitRows(MatchingRows(n, c, radius, cutoff))

\* cachedPlaces.map(..): the cached rows as candidates; the ids of the
\* stored gallery entries are their photo references.
FromCache(found) ==
  [n \in 1..Len(found) |-> [id |-> found[n].id, photos |-> found[n].photos]]

\* allResults.filter(..): the indices of the results whose place_id did not
\* occur before, in order.
FirstOccurrences(all) ==
  LET isFirst(k) == \A j \in 1..(k - 1) : all[j].id # all[k].id
  IN SelectSeq([k \in 1..Len(all) |-> k], isFirst)

\* Dedup without the slice.
DedupNoCap(all) ==
  LET kept == FirstOccurrences(all)
  IN [n \in 1..Len(kept) |-> all[kept[n]]]

\* allResults.filter(first occurrence of place_id).slice(0, 60)
Dedup(all) ==
  LET kept == FirstOccurrences(all)
  IN [n \in 1..Min(MAX_PLACES, Len(kept)) |-> all[kept[n]]]

\* processPlace up to its first await, the select of getOrCachePlacePhotos;
\* without the credential getOrCachePlacePhotos returns the fallback at once.
StartProc(c, cand) ==
  LET q == [IdleProc EXCEPT !.place = cand.id, !.photos = cand.photos,
                            !.dist = haversineMeters(c, cand.id)]
  IN IF ~apiKey THEN Fulfil(q, Fallback(cand.id), << >>, NoDetails)
     ELSE [q EXCEPT !.pc = "select"]

\* BatchOf with one place too many in a batch.
BatchOfSix(i, n) == (i + 1)..Min(i + BATCH_SIZE + 1, n)

BatchOf(i, n) == (i + 1)..Min(i + BATCH_SIZE, n)

\* The batch loop from index i on: the next batch is started, or, when no
\* place is left, the stores are sorted and the response is sent.
RunBatches(r, q, cands, i, stores) ==
  IF i < Len(cands)
  THEN /\ req' = [req EXCEPT ![r] = [q EXCEPT !.pc = "batch", !.places = cands,
                                              !.i = i, !.stores = stores]]
       /\ proc' = [proc EXCEPT ![r] =
                     [k \in 1..Len(cands) |->
                        IF k \in BatchOf(i, Len(cands))
                        THEN StartProc(reqIn[r].center, cands[k])
                        ELSE IF k <= i THEN proc[r][k] ELSE IdleProc]]
  ELSE /\ req' = [req EXCEPT ![r] = [IdleReq EXCEPT !.pc = "done", !.status = 200,
                                              !.places = cands, !.i = i,
                                              !.stores = Restaurants(SortStores(stores))]]
       /\ proc' = proc

\* GET is invoked: parameter and credential checks, then the cache lookup
\* is issued.
GetStart(r) ==
  /\ req[r].pc \in {"idle", "done"}
  /\ starts[r] > 0
  /\ starts' = [starts EXCEPT ![r] = @ - 1]
  /\ proc' = [proc EXCEPT ![r] = << >>]
  /\ req' = [req EXCEPT ![r] =
       IF ~CoordsFinite(reqIn[r]) THEN [IdleReq EXCEPT !.pc = "done", !.status = 400]
       ELSE IF ~apiKey THEN [IdleReq EXCEPT !.pc = "done", !.status = 500]
       ELSE [IdleReq EXCEPT !.pc = "lookup", !.lookupAt = now,
                            !.radius = ClampRadius(Radius(reqIn[r]))]]
  /\ UNCHANGED <<now, apiKey, reqIn, places, place_photos, coverUntil, faults, client>>

\* The store answers the cache lookup; with at least 5 rows the cached
\* places are the candidates, otherwise the first search page is fetched.
GeoLookup(r) ==
  LET q == req[r]
      in == reqIn[r]
      found == SelectCached(Len(PlaceOrder), in.center, q.radius,
                            q.lookupAt - TTL_DAYS)
  IN
  /\ q.pc = "lookup"
  /\ \/ /\ faults' = faults
        /\ IF Len(found) >= MIN_CACHED
           THEN RunBatches(r, [q EXCEPT !.cached = found], FromCache(found), 0, << >>)
           ELSE /\ req' = [req EXCEPT ![r] = [q EXCEPT !.cached = found, !.pc = "page", !.page = 1]]
                /\ proc' = proc
     \/ /\ Fault
        /\ req' = [req EXCEPT ![r] = [q EXCEPT !.pc = "page", !.page = 1]]
        /\ proc' = proc
  /\ UNCHANGED <<now, apiKey, reqIn, places, place_photos, coverUntil, starts, client>>

\* AfterPage that follows the pages without looking at the number fetched.
AfterPageNoLimit(r, q, results, token) ==
  LET all == q.all \o results IN
  IF token
  THEN /\ req' = [req EXCEPT ![r] = [q EXCEPT !.all = all, !.pc = "delay", !.token = token,
                                              !.timer = PAGE_DELAY_MS]]
       /\ proc' = proc
  ELSE RunBatches(r, [q EXCEPT !.all = << >>], Dedup(all), 0, << >>)

\* After a page: a further page after the delay, or de-duplication and the
\* first batch.
AfterPage(r, q, results, token) ==
  LET all == q.all \o results IN
  IF token /\ q.page - 1 < MAX_EXTRA_PAGES
  THEN /\ req' = [req EXCEPT ![r] = [q EXCEPT !.all = all, !.pc = "delay", !.token = token,
                                              !.timer = PAGE_DELAY_MS]]
       /\ proc' = proc
  ELSE RunBatches(r, [q EXCEPT !.all = << >>], Dedup(all), 0, << >>)

\* A nearby-search page returns: results and possibly a token, a non-2xx
\* response (no results), or a network error, which fetchPage does not catch.
\* The provider answers radius=NaN with an invalid-request status and no
\* results.
PageReturns(r) ==
  LET q == req[r]
      pages == IF q.radius.nan THEN << << >> >> ELSE NearbyPages(reqIn[r].center)
  IN
  /\ q.pc = "page"
  /\ \/ /\ faults' = faults
        /\ AfterPage(r, q,
                     [n \in 1..Len(pages[q.page]) |->
                        [id |-> pages[q.page][n], photos |-> NearbyPhotos(pages[q.page][n])]],
                     q.page < Len(pages))
     \/ /\ Fault
        /\ AfterPage(r, q, << >>, FALSE)
     \/ /\ Fault
        /\ req' = [req EXCEPT ![r] = [IdleReq EXCEPT !.pc = "done", !.status = 500]]
        /\ proc' = proc
  /\ UNCHANGED <<now, apiKey, reqIn, places, place_photos, coverUntil, starts, client>>

\* The 2 second pause is over: the next page is fetched.
DelayElapses(r) ==
  /\ req[r].pc = "delay"
  /\ req' = [req EXCEPT ![r].pc = "page", ![r].page = req[r].page + 1,
                         ![r].token = FALSE, ![r].timer = 0]
  /\ UNCHANGED <<now, apiKey, reqIn, proc, places, place_photos, coverUntil, faults, starts, client>>

\* Settled that takes a started call for a settled one.
SettledEarly(q) == q.pc # "idle"

Settled(q) == q.pc \in {"fulfilled", "rejected"}

\* BatchSettled as Promise.all would have it: a rejection fails the request.
BatchSettledAll(r) ==
  LET q == req[r]
      n == Len(q.places)
      last == Min(q.i + BATCH_SIZE, n)
      collect[k \in q.i..last] ==
        IF k = q.i THEN q.stores
        ELSE IF proc[r][k].pc = "fulfilled" THEN Append(collect[k - 1], proc[r][k].result)
        ELSE collect[k - 1]
  IN
  /\ q.pc = "batch"
  /\ \A k \in BatchOf(q.i, n) : Settled(proc[r][k])
  /\ IF \E k \in BatchOf(q.i, n) : proc[r][k].pc = "rejected"
     THEN /\ req' = [req EXCEPT ![r] = [IdleReq EXCEPT !.pc = "done", !.status = 500]]
          /\ proc' = proc
     ELSE RunBatches(r, q, q.places, q.i + BATCH_SIZE, collect[last])
  /\ UNCHANGED <<now, apiKey, reqIn, places, place_photos, coverUntil, faults, starts, client>>

\* Promise.allSettled of the batch resolves: the fulfilled values are
\* collected and the loop goes on.
BatchSettled(r) ==
  LET q == req[r]
      n == Len(q.places)
      last == Min(q.i + BATCH_SIZE, n)
      collect[k \in q.i..last] ==
        IF k = q.i THEN q.stores
        ELSE IF proc[r][k].pc = "fulfilled" THEN Append(collect[k - 1], proc[r][k].result)
        ELSE collect[k - 1]
  IN
  /\ q.pc = "batch"
  /\ \A k \in BatchOf(q.i, n) : Settled(proc[r][k])
  /\ RunBatches(r, q, q.places, q.i + BATCH_SIZE, collect[last])
  /\ UNCHANGED <<now, apiKey, reqIn, places, place_photos, coverUntil, faults, starts, client>>

\* The de-duplication and cap of lines 770-777 by itself, applied to the
\* results accumulated over the pages.
DedupApplied(r) ==
  /\ req[r].pc = "dedup"
  /\ req' = [req EXCEPT ![r].pc = "deduped", ![r].places = Dedup(req[r].all)]
  /\ UNCHANGED <<now, apiKey, reqIn, proc, places, place_photos, coverUntil, faults, starts, client>>

\* The limit of the cache lookup and the mapping of lines 700-713 by
\* themselves, applied to the rows that match the lookup.
LimitApplied(r) ==
  /\ req[r].pc = "limit"
  /\ req' = [req EXCEPT ![r].pc = "limited", ![r].cached = LimitRows(req[r].all),
                         ![r].places = FromCache(LimitRows(req[r].all))]
  /\ UNCHANGED <<now, apiKey, reqIn, proc, places, place_photos, coverUntil, faults, starts, client>>

\* The service is deployed anew without GOOGLE_PLACES_API_KEY, while no
\* request is being served; the store stays.
KeyRemoved ==
  /\ apiKey
  /\ \A r \in Requests : req[r].pc \in {"idle", "done"}
  /\ apiKey' = FALSE
  /\ UNCHANGED <<now, reqIn, req, proc, places, place_photos, coverUntil, faults, starts, client>>

\* Time passes.
Tick ==
  /\ now + TickDays <= MaxTime
  /\ now' = now + TickDays
  /\ UNCHANGED <<apiKey, reqIn, req, proc, places, place_photos, coverUntil, faults, starts, client>>

\* ------------------------------------------------ recommendations, pure
\* The page with the card stack (Home, view "home") and the recommendations
\* page (RecommendationsPage, view "page") each have their own copy of the
\* functions below; the copies differ in the distance parser only.
Views == {"home", "page"}

\* Optional numbers (rating?, ratingCount?, priceLevel?) are << >> when
\* undefined and <<n>> otherwise; ratings are in tenths.  An id is a number
\* or a string, with the text String(id) gives for it.
Undefined == << >>
IsNumber(x) == x # Undefined

\* String.prototype.toLowerCase, for the letters of the texts of the model.
LowerChar(ch) ==
  CASE ch = "K" -> "k" [] ch = "M" -> "m" [] ch = "I" -> "i" [] OTHER -> ch
toLowerCase(s) == [n \in 1..Len(s) |-> LowerChar(s[n])]

\* String.prototype.includes
Includes(s, sub) ==
  \E n \in 1..(Len(s) - Len(sub) + 1) : SubSeq(s, n, n + Len(sub) - 1) = sub

NoMeters == [null |-> TRUE, mm |-> 0]

\* parseFloat(distance) times the factor of a unit, in millimeters.
Times(num, factor) == [null |-> FALSE, mm |-> (num.val * factor) \div Pow10(num.scale)]

\* The unit parseDistanceToMeters reads in a lowercased text, as the factor
\* from the unit to millimeters (0: no unit): the main page looks for miles
\* first, then kilometers, then meters; the recommendations page looks for
\* "km", then for "m".
UnitFactor(view, lower) ==
  IF view = "home"
  THEN IF Includes(lower, <<"m", "i">>) \/ Includes(lower, <<"m", "i", "l", "e">>)
       THEN 1609340
       ELSE IF Includes(lower, <<"k", "m">>) THEN 1000000
       ELSE IF Includes(lower, <<"m">>) /\ ~Includes(lower, <<"m", "i", "l", "e">>)
       THEN 1000
       ELSE 0
  ELSE IF Includes(lower, <<"k", "m">>) THEN 1000000
       ELSE IF Includes(lower, <<"m">>) THEN 1000
       ELSE 0

MetersOf(num, factor) ==
  IF num.nan \/ factor = 0 THEN NoMeters ELSE Times(num, factor)

\* parseDistanceToMeters, in millimeters.
parseDistanceToMeters(view, distance) ==
  IF distance = << >> THEN NoMeters
  ELSE MetersOf(parseFloat(toLowerCase(distance)), UnitFactor(view, toLowerCase(distance)))

\* a / b of two numbers: 0 / 0 is NaN.  A quotient is kept as the fraction
\* num / den.
NaNQuotient == [nan |-> TRUE, num |-> 0, den |-> 1]
Zero == [nan |-> FALSE, num |-> 0, den |-> 1]
Divide(a, b) == IF b = 0 THEN NaNQuotient ELSE [nan |-> FALSE, num |-> a, den |-> b]

\* record[key] || 0
CountOf(record, key) == IF key \in DOMAIN record THEN record[key] ELSE 0

RECURSIVE SumOver(_, _)
SumOver(idx, value) ==
  IF idx = {} THEN 0
  ELSE LET n == CHOOSE m \in idx : TRUE
       IN value[n] + SumOver(idx \ {n}, value)

\* The keys a counting loop of extractPreferences creates, with the number
\* of entries that have the key.
CountKeys(idx, key) ==
  [k \in {key[n] : n \in idx} |-> Cardinality({n \in idx : key[n] = k})]

\* A rating is an IEEE double.  A double x that is near a multiple of 1/10
\* is kept exactly as num, den, dev with
\*     x * 10 * den * 2^52 = num * 2^52 + dev,
\* for x of 1 and more and below 128.  Pow2Mod is 2^e modulo m.
RECURSIVE Pow2Mod(_, _)
Pow2Mod(e, m) ==
  IF e = 0 THEN 1 % m
  ELSE IF e % 2 = 1 THEN (2 * Pow2Mod(e - 1, m)) % m
  ELSE (Pow2Mod(e \div 2, m) * Pow2Mod(e \div 2, m)) % m

\* The spacing of the doubles around x, in units of 2^-52: the largest
\* power of two that is at most x.
Binade(num, den, dev) ==
  LET atLeast(G) == num > 10 * den * G \/ (num = 10 * den * G /\ dev >= 0)
      powers == {1, 2, 4, 8, 16, 32, 64}
  IN IF \E G \in powers : atLeast(G)
     THEN CHOOSE G \in powers : atLeast(G) /\ \A H \in powers : atLeast(H) => H <= G
     ELSE 1

\* Rounding to the nearest double, ties to even: m is 10 * den times the
\* spacing, r what the exact value is above a double.
RoundBy(num, den, dev, m, r, r2) ==
  [nan |-> FALSE, num |-> num, den |-> den,
   dev |-> IF 2 * r < m THEN dev - r
           ELSE IF 2 * r > m THEN dev + m - r
           ELSE IF (r2 - r) % (2 * m) = 0 THEN dev - r ELSE dev + m - r]

RoundTo(num, den, dev, m) ==
  RoundBy(num, den, dev, m,
          (num * Pow2Mod(52, m) + dev + m) % m,
          (num * Pow2Mod(52, 2 * m) + dev + 2 * m) % (2 * m))

RoundDouble(num, den, dev) == RoundTo(num, den, dev, 10 * den * Binade(num, den, dev))

\* The double JSON.parse gives for a rating of tenths / 10, the sum of two
\* doubles, and a double divided by a count.
toDouble(tenths) == RoundDouble(tenths, 1, 0)
NoDouble == [nan |-> FALSE, num |-> 0, den |-> 1, dev |-> 0]
AddDouble(a, b) == IF a.num = 0 THEN b ELSE RoundDouble(a.num + b.num, 1, a.dev + b.dev)
DivideDouble(a, count) ==
  IF count = 0 THEN [nan |-> TRUE, num |-> 0, den |-> 1, dev |-> 0]
  ELSE IF a.num = 0 THEN NoDouble
  ELSE RoundDouble(a.num, count, a.dev)

\* typeof store.rating === "number" && store.rating > 0
IsRated(store) == IsNumber(store.rating) /\ store.rating[1] > 0

\* totalRating after the first n entries of the loop.
RECURSIVE TotalRating(_, _)
TotalRating(saved, n) ==
  IF n = 0 THEN NoDouble
  ELSE IF IsRated(saved[n])
       THEN AddDouble(TotalRating(saved, n - 1), toDouble(saved[n].rating[1]))
       ELSE TotalRating(saved, n - 1)

\* extractPreferences without the guards on the two counts.
extractPreferencesUnguarded(view, saved) ==
  LET all == 1..Len(saved)
      meters == [n \in all |-> parseDistanceToMeters(view, saved[n].distance)]
      rated == {n \in all : IsNumber(saved[n].rating) /\ saved[n].rating[1] > 0}
      located == {n \in all : ~meters[n].null}
  IN
  IF Len(saved) = 0
  THEN [favoriteCuisines |-> << >>, avgRating |-> NoDouble, avgDistance |-> Zero,
        preferredPriceLevels |-> << >>, preferredSpiceLevels |-> << >>, totalSaved |-> 0]
  ELSE [favoriteCuisines |->
          CountKeys({n \in all : saved[n].cuisine # ""}, [n \in all |-> saved[n].cuisine]),
        preferredPriceLevels |->
          CountKeys({n \in all : IsNumber(saved[n].priceLevel)},
                    [n \in all |-> saved[n].priceLevel]),
        preferredSpiceLevels |->
          CountKeys({n \in all : saved[n].spiceLevel # ""},
                    [n \in all |-> saved[n].spiceLevel]),
        avgRating |-> DivideDouble(TotalRating(saved, Len(saved)), Cardinality(rated)),
        avgDistance |->
          Divide(SumOver(located, [n \in all |-> meters[n].mm]),
                 Cardinality(located)),
        totalSaved |-> Len(saved)]

\* extractPreferences: the profile of a saved list.  The price levels are
\* keyed by the optional number itself.
extractPreferences(view, saved) ==
  LET all == 1..Len(saved)
      meters == [n \in all |-> parseDistanceToMeters(view, saved[n].distance)]
      rated == {n \in all : IsNumber(saved[n].rating) /\ saved[n].rating[1] > 0}
      located == {n \in all : ~meters[n].null}
  IN
  IF Len(saved) = 0
  THEN [favoriteCuisines |-> << >>, avgRating |-> NoDouble, avgDistance |-> Zero,
        preferredPriceLevels |-> << >>, preferredSpiceLevels |-> << >>, totalSaved |-> 0]
  ELSE [favoriteCuisines |->
          CountKeys({n \in all : saved[n].cuisine # ""}, [n \in all |-> saved[n].cuisine]),
        preferredPriceLevels |->
          CountKeys({n \in all : IsNumber(saved[n].priceLevel)},
                    [n \in all |-> saved[n].priceLevel]),
        preferredSpiceLevels |->
          CountKeys({n \in all : saved[n].spiceLevel # ""},
                    [n \in all |-> saved[n].spiceLevel]),
        avgRating |->
          IF Cardinality(rated) > 0
          THEN DivideDouble(TotalRating(saved, Len(saved)), Cardinality(rated))
          ELSE NoDouble,
        avgDistance |->
          IF Cardinality(located) > 0
          THEN Divide(SumOver(located, [n \in all |-> meters[n].mm]),
                      Cardinality(located))
          ELSE Zero,
        totalSaved |-> Len(saved)]

\* Scores are kept in units of 1/300 point, in which every term is whole.
Points(n) == n * 300

\* CuisineScore without the cap at three saved entries.
CuisineScoreNoCap(restaurant, preferences) ==
  LET cuisineCount == CountOf(preferences.favoriteCuisines, restaurant.cuisine) IN
  IF cuisineCount > 0 THEN Points(cuisineCount * 8)
  ELSE IF preferences.totalSaved > 0 THEN Points(0 - 2)
  ELSE 0

\* Cuisine match
CuisineScore(restaurant, preferences) ==
  LET cuisineCount == CountOf(preferences.favoriteCuisines, restaurant.cuisine) IN
  IF cuisineCount > 0 THEN (IF cuisineCount >= 3 THEN Points(25) ELSE Points(cuisineCount * 8))
  ELSE IF preferences.totalSaved > 0 THEN Points(0 - 2)
  ELSE 0

\* Rating scoring, with the social proof boost inside it.
RatingScore(restaurant, preferences) ==
  LET rating == restaurant.rating
      avg == preferences.avgRating
      ratingCount == restaurant.ratingCount
  IN
  IF IsNumber(rating) /\ rating[1] > 0
  THEN (IF ~avg.nan /\ avg.num > 0
        THEN LET ratingDiff == Abs(rating[1] * avg.den - avg.num) IN
             (IF ratingDiff < 5 * avg.den THEN Points(20)
              ELSE IF ratingDiff < 10 * avg.den THEN Points(12)
              ELSE Points(5))
             + (IF avg.num >= 40 * avg.den /\ rating[1] >= 45 THEN Points(8) ELSE 0)
        ELSE rating[1] * 90)
       + (IF IsNumber(ratingCount) /\ ratingCount[1] > 100
          THEN Min(ratingCount[1], 900) ELSE 0)
  ELSE 0

\* Distance scoring
DistanceScore(view, restaurant, preferences) ==
  LET meters == parseDistanceToMeters(view, restaurant.distance)
      avg == preferences.avgDistance
  IN
  IF ~meters.null /\ meters.mm > 0
  THEN (IF ~avg.nan /\ avg.num > 0
        THEN LET distanceDiff == Abs(meters.mm * avg.den - avg.num) IN
             (IF distanceDiff < 500000 * avg.den THEN Points(15)
              ELSE IF distanceDiff < 1000000 * avg.den THEN Points(10)
              ELSE 0)
             + (IF avg.num < 1000000 * avg.den /\ meters.mm < 1500000 THEN Points(12) ELSE 0)
        ELSE 0)
       + (IF meters.mm < 500000 THEN Points(10)
          ELSE IF meters.mm < 1000000 THEN Points(7)
          ELSE IF meters.mm < 2000000 THEN Points(4)
          ELSE IF meters.mm < 5000000 THEN Points(1)
          ELSE 0)
  ELSE 0

\* Price level
PriceScore(restaurant, preferences) ==
  LET priceCount == CountOf(preferences.preferredPriceLevels, restaurant.priceLevel) IN
  IF IsNumber(restaurant.priceLevel)
  THEN (IF priceCount > 0 THEN Points(priceCount * 5) ELSE Points(0 - 1))
  ELSE 0

\* Spice level
SpiceScore(restaurant, preferences) ==
  LET spiceCount == CountOf(preferences.preferredSpiceLevels, restaurant.spiceLevel) IN
  IF spiceCount > 0 THEN Points(spiceCount * 3) ELSE 0

\* Diversity bonus
DiversityScore(restaurant, preferences) ==
  IF /\ preferences.totalSaved >= 5
     /\ CountOf(preferences.favoriteCuisines, restaurant.cuisine) = 0
  THEN Points(2) ELSE 0

\* Quality indicators
QualityScore(restaurant) ==
  (IF restaurant.isNew THEN Points(3) ELSE 0) + (IF restaurant.openNow THEN Points(5) ELSE 0)

scoreRecommendation(view, restaurant, preferences) ==
  CuisineScore(restaurant, preferences) + RatingScore(restaurant, preferences)
    + DistanceScore(view, restaurant, preferences) + PriceScore(restaurant, preferences)
    + SpiceScore(restaurant, preferences) + DiversityScore(restaurant, preferences)
    + QualityScore(restaurant)

\* ---------------------------------------------- recommendations, ranking
Sign(x) == IF x > 0 THEN 1 ELSE IF x < 0 THEN 0 - 1 ELSE 0

\* a.restaurant.rating ?? 0
RatingOrZero(restaurant) == IF IsNumber(restaurant.rating) THEN restaurant.rating[1] ELSE 0

\* What the comparator returns for a score difference, two ratings and two
\* distances, by its sign.  With both distances unparseable it returns
\* Infinity - Infinity = NaN, which the sort reads as 0.
CompareBy(scoreDiff, ratingA, ratingB, distA, distB) ==
  IF Abs(scoreDiff) > 30 THEN Sign(scoreDiff)
  ELSE IF ratingB # ratingA THEN Sign(ratingB - ratingA)
  ELSE IF distA.null /\ distB.null THEN 0
  ELSE IF distA.null THEN 1
  ELSE IF distB.null THEN 0 - 1
  ELSE Sign(distA.mm - distB.mm)

\* The comparator handed to scored.sort.
compare(view, a, b) ==
  CompareBy(b.score - a.score, RatingOrZero(a.restaurant), RatingOrZero(b.restaurant),
            parseDistanceToMeters(view, a.restaurant.distance),
            parseDistanceToMeters(view, b.restaurant.distance))

\* Array.prototype.sort as V8 runs it on fewer than 64 elements: the
\* leading run is found (and reversed when strictly descending), then every
\* later element is placed by binary insertion.  A comparator that is not
\* transitive leaves the order to the engine; this is the order V8 gives.
IsDescending(view, arr) == Len(arr) >= 2 /\ compare(view, arr[2], arr[1]) < 0

\* The length of the leading run of arr, descending or not.
RunLength(view, arr, descending) ==
  IF Len(arr) < 2 THEN Len(arr)
  ELSE LET goesOn(j) == (compare(view, arr[j], arr[j - 1]) < 0) = descending
       IN CHOOSE k \in 2..Len(arr) :
            /\ \A j \in 3..k : goesOn(j)
            /\ k < Len(arr) => ~goesOn(k + 1)

CountRun(view, arr) == RunLength(view, arr, IsDescending(view, arr))

\* arr with its first k elements reversed when the run is descending.
Reversed(arr, k, descending) ==
  IF descending
  THEN SubSeq([n \in 1..Len(arr) |-> IF n <= k THEN arr[k + 1 - n] ELSE arr[n]], 1, Len(arr))
  ELSE arr

MakeRun(view, arr) == Reversed(arr, CountRun(view, arr), IsDescending(view, arr))

\* The number of elements of sorted[1..right] the pivot is placed after.
RECURSIVE InsertionPoint(_, _, _, _, _)
InsertionPoint(view, sorted, pivot, left, right) ==
  IF left >= right THEN left
  ELSE LET mid == left + ((right - left) \div 2) IN
       IF compare(view, pivot, sorted[mid + 1]) < 0
       THEN InsertionPoint(view, sorted, pivot, left, mid)
       ELSE InsertionPoint(view, sorted, pivot, mid + 1, right)

\* arr with the element at start moved behind its first at elements.
Placed(arr, start, at) ==
  SubSeq(arr, 1, at) \o <<arr[start]>> \o SubSeq(arr, at + 1, start - 1)
    \o SubSeq(arr, start + 1, Len(arr))

RECURSIVE BinaryInsertionSort(_, _, _)
BinaryInsertionSort(view, arr, start) ==
  IF start > Len(arr) THEN arr
  ELSE CHOOSE sorted \in
         {BinaryInsertionSort(view, placed, start + 1) :
            placed \in {Placed(arr, start, InsertionPoint(view, arr, arr[start], 0, start - 1))}} :
         TRUE

SortScored(view, scored) ==
  CHOOSE sorted \in
    {BinaryInsertionSort(view, run, CountRun(view, scored) + 1) :
       run \in {MakeRun(view, scored)}} : TRUE

\* allRestaurants.filter((r) => !savedIds.has(String(r.id)))
NewRestaurants(saved, all) ==
  LET savedIds == {saved[n].id.text : n \in 1..Len(saved)}
      isNew(r) == r.id.text \notin savedIds
  IN SelectSeq(all, isNew)

\* newRestaurants.map(score)
Scored(view, restaurants, preferences) ==
  SubSeq([n \in 1..Len(restaurants) |->
            [restaurant |-> restaurants[n],
             score |-> scoreRecommendation(view, restaurants[n], preferences)]],
         1, Len(restaurants))

\* The places of a response that are not saved, scored and sorted.
Ranked(view, saved, all, preferences) ==
  CHOOSE sorted \in
    {SortScored(view, scored) :
       scored \in {Scored(view, new, preferences) : new \in {NewRestaurants(saved, all)}}} :
    TRUE

MAX_RECOMMENDATIONS == 20

\* TopRecommendations without the slice.
TopRecommendationsAll(view, saved, all, preferences) ==
  Ranked(view, saved, all, preferences)

\* scored.sort(..).slice(0, 20)
TopRecommendations(view, saved, all, preferences) ==
  CHOOSE top \in
    {SubSeq(sorted, 1, Min(MAX_RECOMMENDATIONS, Len(sorted))) :
       sorted \in {Ranked(view, saved, all, preferences)}} : TRUE

\* ------------------------------------------------ recommendations, steps
\* Distance texts: "0.5 km away", "0.6 km away", "0 m away", and a text
\* without a number.
Km05 == <<"0", ".", "5", " ", "k", "m", " ", "a", "w", "a", "y">>
Km06 == <<"0", ".", "6", " ", "k", "m", " ", "a", "w", "a", "y">>
M0 == <<"0", " ", "m", " ", "a", "w", "a", "y">>
Nearby == <<"n", "e", "a", "r", "b", "y">>

\* The texts the parser is called with: "2 mi", "2 miles", "2 km", "2 KM",
\* "2 m", those above, and the empty text.
Mi2 == <<"2", " ", "m", "i">>
Miles2 == <<"2", " ", "m", "i", "l", "e", "s">>
Km2 == <<"2", " ", "k", "m">>
KM2 == <<"2", " ", "K", "M">>
M2 == <<"2", " ", "m">>
DistanceTexts == {Mi2, Miles2, Km2, KM2, M2, Km05, M0, Nearby, << >>}

\* window.localStorage, which the two pages share: the items the main page
\* sets and the items the recommendations page gets.  An item is << >>
\* when absent and <<value>> otherwise.
StorageKeys ==
  {"hihungry_saved_restaurants", "hihungry_user_location",
   "hangry_saved_restaurants", "hangry_user_location"}

\* The state of a page: the saved list and the location it has loaded, the
\* profile of the saved list (useMemo), the response it last read, the
\* recommendations it shows.  distanceCache is the Map of the recommendations
\* page; asked and returned are the last call of parseDistanceToMeters,
\* parseCount the number of times a text went through parseFloat, calls the
\* number of calls.
IdleClient ==
  [view |-> "home", pc |-> "mounted", userLocation |-> FALSE, saved |-> << >>,
   preferences |-> extractPreferences("home", << >>), all |-> << >>, scored |-> << >>,
   recommendations |-> << >>, error |-> Null,
   distanceCache |-> << >>, parseCount |-> [t \in DistanceTexts |-> 0],
   asked |-> << >>, returned |-> NoMeters, calls |-> 0,
   storage |-> [key \in StorageKeys |-> << >>]]

server == <<now, apiKey, reqIn, req, proc, places, place_photos, coverUntil, faults, starts>>

\* A saved list of n places of which the first k are Italian; the places
\* have a rating of 4.5 and a distance of 0.5 km, or neither.
SavedList(n, k, usable) ==
  [i \in 1..n |->
     [id |-> [num |-> TRUE, text |-> ToString(i)],
      cuisine |-> IF i <= k THEN "Italian" ELSE "Thai",
      rating |-> IF usable THEN <<45>> ELSE Undefined,
      ratingCount |-> Undefined,
      distance |-> IF usable THEN Km05 ELSE Nearby,
      priceLevel |-> <<2>>,
      spiceLevel |-> IF i % 2 = 0 THEN "Hot" ELSE "",
      isNew |-> FALSE, openNow |-> FALSE]]

SavedLists == {SavedList(n, k, usable) : n \in 0..MaxSaved, k \in 0..MaxSaved, usable \in BOOLEAN}

\* The saved list and the location are read from the local storage after
\* the page has mounted; the profile follows the saved list.
LoadSaved ==
  /\ client.pc = "mounted"
  /\ \E list \in SavedLists, located \in BOOLEAN :
       client' = [client EXCEPT !.pc = "ready", !.saved = list, !.userLocation = located,
                                !.preferences = extractPreferences(client.view, list)]
  /\ UNCHANGED server

\* Saved lists of up to MaxMixed places whose ratings (none, 0, 3.6, 3.7,
\* 4.5) and distances (0.5 km, none that can be read) differ.
MixedStores ==
  {[id |-> [num |-> FALSE, text |-> "s"], cuisine |-> "Thai", rating |-> rating,
    ratingCount |-> Undefined, distance |-> distance, priceLevel |-> <<2>>,
    spiceLevel |-> "", isNew |-> FALSE, openNow |-> FALSE] :
     rating \in {Undefined, <<0>>, <<36>>, <<37>>, <<45>>}, distance \in {Km05, Nearby}}

MixedLists == UNION {[1..n -> MixedStores] : n \in 0..MaxMixed}

\* A call parseDistanceToMeters(distance) that does not look into
\* distanceCache first.
ParseCallNoLookup(distance) ==
  /\ client.calls < MaxCalls
  /\ client' =
       IF distance = << >>
       THEN [client EXCEPT !.calls = @ + 1, !.asked = distance, !.returned = NoMeters]
       ELSE LET result == parseDistanceToMeters(client.view, distance) IN
            [client EXCEPT !.calls = @ + 1, !.asked = distance, !.returned = result,
               !.parseCount[distance] = @ + 1,
               !.distanceCache =
                  IF client.view = "home" THEN @
                  ELSE [t \in DOMAIN @ \cup {distance} |->
                          IF t = distance THEN result ELSE @[t]]]
  /\ UNCHANGED server

\* A call parseDistanceToMeters(distance): the recommendations page
\* answers from distanceCache when it has the text, and stores what it
\* parses; the main page parses every time.
ParseCall(distance) ==
  /\ client.calls < MaxCalls
  /\ client' =
       IF distance = << >>
       THEN [client EXCEPT !.calls = @ + 1, !.asked = distance, !.returned = NoMeters]
       ELSE IF client.view = "page" /\ distance \in DOMAIN client.distanceCache
       THEN [client EXCEPT !.calls = @ + 1, !.asked = distance,
               !.returned = client.distanceCache[distance]]
       ELSE LET result == parseDistanceToMeters(client.view, distance) IN
            [client EXCEPT !.calls = @ + 1, !.asked = distance, !.returned = result,
               !.parseCount[distance] = @ + 1,
               !.distanceCache =
                  IF client.view = "home" THEN @
                  ELSE [t \in DOMAIN @ \cup {distance} |->
                          IF t = distance THEN result ELSE @[t]]]
  /\ UNCHANGED server

\* JSON.parse(JSON.stringify(saved.map(minimal))): the fields the main
\* page stores of a saved place, as they are read back.
MinimalData(saved) ==
  [n \in 1..Len(saved) |->
     [saved[n] EXCEPT !.ratingCount = Undefined, !.isNew = FALSE, !.openNow = FALSE]]

\* The user saves places in the main page; the effect that follows the
\* change writes the list to the local storage.
SavedChanges ==
  /\ client.view = "home" /\ client.pc = "mounted" /\ client.saved = << >>
  /\ \E list \in SavedLists \ {<< >>} :
       client' = [client EXCEPT !.saved = list,
                    !.preferences = extractPreferences(client.view, list),
                    !.storage["hihungry_saved_restaurants"] = <<MinimalData(list)>>]
  /\ UNCHANGED server

\* The browser reports the position to the main page, which keeps and
\* stores it.
LocationFound ==
  /\ client.view = "home" /\ client.pc = "mounted" /\ ~client.userLocation
  /\ client' = [client EXCEPT !.userLocation = TRUE,
                               !.storage["hihungry_user_location"] = <<TRUE>>]
  /\ UNCHANGED server

\* The link "View Recommendations": the recommendations page is mounted.
OpenRecommendations ==
  /\ client.view = "home" /\ client.pc = "mounted"
  /\ client' = [IdleClient EXCEPT !.view = "page", !.storage = client.storage]
  /\ UNCHANGED server

\* The recommendations page reads the saved list and the location from the
\* local storage when it has mounted.
PageRestore ==
  LET savedRaw == client.storage["hangry_saved_restaurants"]
      locationRaw == client.storage["hangry_user_location"]
      list == IF savedRaw # << >> THEN savedRaw[1] ELSE client.saved
  IN
  /\ client.view = "page" /\ client.pc = "mounted"
  /\ client' = [client EXCEPT !.pc = "ready", !.saved = list,
                               !.userLocation = IF locationRaw # << >> THEN locationRaw[1] ELSE @,
                               !.preferences = extractPreferences("page", list)]
  /\ UNCHANGED server

\* The same step, reading one of the mixed lists.
LoadMixed ==
  /\ client.pc = "mounted"
  /\ \E list \in MixedLists, located \in BOOLEAN :
       client' = [client EXCEPT !.pc = "ready", !.saved = list, !.userLocation = located,
                                !.preferences = extractPreferences(client.view, list)]
  /\ UNCHANGED server

\* The candidates a profile is applied to.
Candidates ==
  {[id |-> [num |-> FALSE, text |-> "c"], cuisine |-> cuisine, rating |-> rating,
    ratingCount |-> ratingCount, distance |-> distance, priceLevel |-> priceLevel,
    spiceLevel |-> spiceLevel, isNew |-> flags[1], openNow |-> flags[2]] :
     cuisine \in {"Italian", ""}, rating \in {Undefined, <<46>>},
     ratingCount \in {Undefined, <<150>>}, distance \in {Km06, M0, Nearby},
     priceLevel \in {Undefined, <<2>>}, spiceLevel \in {"", "Hot"},
     flags \in {<<FALSE, FALSE>>, <<TRUE, FALSE>>, <<FALSE, TRUE>>}}

\* scoreRecommendation is applied to a candidate and the profile.
ScoreOne ==
  /\ client.pc = "ready"
  /\ \E restaurant \in Candidates :
       client' = [client EXCEPT !.pc = "scored",
                    !.scored = Scored(client.view, <<restaurant>>, client.preferences)]
  /\ UNCHANGED server

\* fetchRecommendations up to its await: without a location or a saved
\* place nothing is fetched.
RecsStart ==
  /\ client.pc = "ready"
  /\ client' =
       IF ~client.userLocation \/ Len(client.saved) = 0
       THEN IF client.view = "home"
            THEN [client EXCEPT !.pc = "skipped", !.recommendations = << >>, !.error = Null]
            ELSE [client EXCEPT !.pc = "skipped", !.error = "save_first"]
       ELSE [client EXCEPT !.pc = "loading", !.error = Null]
  /\ UNCHANGED server

\* The restaurants a response lists: n places with ids 1..n, in the order
\* of the response.
CandidateRun(n) ==
  [j \in 1..n |->
     [id |-> [num |-> FALSE, text |-> ToString(j)],
      cuisine |-> IF j % 2 = 0 THEN "Italian" ELSE "Thai",
      rating |-> IF j % 5 = 0 THEN Undefined ELSE <<40 + 2 * (j % 4)>>,
      ratingCount |-> <<90 + 24 * j>>,
      distance |-> IF j % 3 = 0 THEN Nearby ELSE IF j % 3 = 1 THEN Km06 ELSE Km05,
      priceLevel |-> <<2>>, spiceLevel |-> "", isNew |-> j = 1, openNow |-> FALSE]]

\* Three places that differ in rating and rating count only.
Close(text, rating, ratingCount) ==
  [id |-> [num |-> FALSE, text |-> text], cuisine |-> "Thai", rating |-> <<rating>>,
   ratingCount |-> <<ratingCount>>, distance |-> Km06, priceLevel |-> <<2>>,
   spiceLevel |-> "", isNew |-> FALSE, openNow |-> FALSE]

CloseRuns ==
  LET A == Close("A", 42, 348)
      B == Close("B", 43, 324)
      C == Close("C", 44, 300)
  IN {<<A, B, C>>, <<A, C, B>>, <<B, A, C>>, <<B, C, A>>, <<C, A, B>>, <<C, B, A>>,
      <<B, A>>, <<A, C>>}

Responses == {CandidateRun(n) : n \in 0..MaxCandidates} \cup CloseRuns

\* The response arrives: the places not yet saved are scored, sorted and
\* cut to 20; a response that is not ok or cannot be read is an error.
RecsReturn ==
  /\ client.pc = "loading"
  /\ \/ \E all \in Responses :
          LET new == NewRestaurants(client.saved, all) IN
          client' =
            IF Len(new) = 0
            THEN [client EXCEPT !.pc = "failed", !.all = all, !.error = "none_new"]
            ELSE [client EXCEPT !.pc = "shown", !.all = all,
                     !.recommendations =
                        TopRecommendations(client.view, client.saved, all, client.preferences)]
     \/ client' = [client EXCEPT !.pc = "failed", !.error = "failed"]
  /\ UNCHANGED server

\* ------------------------------------------------------- specifications
Refs == {"a", "b", "c", "d", "e"}
Input(c) == [center |-> c, radius |-> <<"1", "0", "0", "0">>, lat |-> <<"0">>, lon |-> <<"0">>]

InitStore ==
  /\ places = [p \in Places |-> NoRow]
  /\ place_photos = [p \in Places |-> [x \in Refs |-> "absent"]]
  /\ coverUntil = [p \in Places |-> 0]

Init ==
  /\ now = 0
  /\ apiKey = TRUE
  /\ reqIn \in {[r \in Requests |-> Input(c)] : c \in {"c1", "c2"}}
  /\ req = [r \in Requests |-> IdleReq]
  /\ proc = [r \in Requests |-> << >>]
  /\ InitStore
  /\ client = IdleClient
  /\ faults = MaxFaults
  /\ starts = [r \in Requests |-> IF r = "r1" THEN MaxStarts ELSE 0]

Next ==
  \/ \E r \in Requests : GetStart(r)
  \/ \E r \in Requests : GeoLookup(r)
  \/ \E r \in Requests : PageReturns(r)
  \/ \E r \in Requests : DelayElapses(r)
  \/ \E r \in Requests : BatchSettled(r)
  \/ \E r \in Requests : \E k \in DOMAIN proc[r] : SelectReturns(r, k)
  \/ \E r \in Requests : \E k \in DOMAIN proc[r] : ProcessPlaceThrows(r, k)
  \/ \E r \in Requests : \E k \in DOMAIN proc[r] : DetailsReturns(r, k)
  \/ \E r \in Requests : \E k \in DOMAIN proc[r] : PhotoReturns(r, k)
  \/ \E r \in Requests : \E k \in DOMAIN proc[r] : PhotoTimeout(r, k)
  \/ \E r \in Requests : \E k \in DOMAIN proc[r] : PhotoBodyReturns(r, k)
  \/ \E r \in Requests : \E k \in DOMAIN proc[r] : TenSecondsPass(r, k)
  \/ \E r \in Requests : \E k \in DOMAIN proc[r] : RetryDelayElapses(r, k)
  \/ \E r \in Requests : \E k \in DOMAIN proc[r] : PlaceWriteReturns(r, k)
  \/ \E r \in Requests : \E k \in DOMAIN proc[r] : UpsertReturns(r, k)
  \/ \E r \in Requests : \E k \in DOMAIN proc[r] : PhotoUpsertReturns(r, k)
  \/ Tick

\* One client after the other: its requests never overlap.
Spec == Init /\ [][Next]_vars

\* Two clients near the same place whose requests overlap.
InitRace ==
  /\ now = 0
  /\ apiKey = TRUE
  /\ reqIn \in {[r \in Requests |-> Input(c)] : c \in {"c1", "c2"}}
  /\ req = [r \in Requests |-> IdleReq]
  /\ proc = [r \in Requests |-> << >>]
  /\ InitStore
  /\ client = IdleClient
  /\ faults = MaxFaults
  /\ starts = [r \in Requests |-> IF r = "r1" THEN 2 ELSE 1]

SpecRace == InitRace /\ [][Next]_vars

\* Two requests in a row over six places, nothing failing: the first fills
\* the cache, the second finds it; the credential may be withdrawn.
InitWarm ==
  /\ now = 0
  /\ apiKey = TRUE
  /\ reqIn = [r \in Requests |-> Input("c6")]
  /\ req = [r \in Requests |-> IdleReq]
  /\ proc = [r \in Requests |-> << >>]
  /\ InitStore
  /\ client = IdleClient
  /\ faults = 0
  /\ starts = [r \in Requests |-> IF r = "r1" THEN 2 ELSE 0]

NextWarm ==
  \/ \E r \in Requests : GetStart(r)
  \/ \E r \in Requests : GeoLookup(r)
  \/ \E r \in Requests : PageReturns(r)
  \/ \E r \in Requests : BatchSettled(r)
  \/ \E r \in Requests : \E k \in DOMAIN proc[r] : SelectReturns(r, k)
  \/ \E r \in Requests : \E k \in DOMAIN proc[r] : DetailsReturns(r, k)
  \/ \E r \in Requests : \E k \in DOMAIN proc[r] : PhotoReturns(r, k)
  \/ \E r \in Requests : \E k \in DOMAIN proc[r] : PlaceWriteReturns(r, k)
  \/ \E r \in Requests : \E k \in DOMAIN proc[r] : UpsertReturns(r, k)
  \/ \E r \in Requests : \E k \in DOMAIN proc[r] : PhotoUpsertReturns(r, k)
  \/ KeyRemoved

SpecWarm == InitWarm /\ [][NextWarm]_vars

\* Search results and cache rows in any number up to MaxResults, to which
\* the de-duplication and the limit are applied.  Place ids are numbers;
\* the n results go round m ids, the rows of the table have n ids.
MaxResults == 62
GeoFaults == 1

ResultList(n, m) == [k \in 1..n |-> [id |-> ((k - 1) % m) + 1, photos |-> << >>]]
RowList(n) == [k \in 1..n |-> [id |-> k, photos |-> << >>, exp |-> TTL_DAYS]]

InitDedup ==
  /\ now = 0
  /\ apiKey = TRUE
  /\ reqIn = [r \in Requests |-> Input("c1")]
  /\ \E n \in 0..MaxResults, m \in 1..MaxResults :
       req = [r \in Requests |->
                IF r = "r1" THEN [IdleReq EXCEPT !.pc = "dedup", !.all = ResultList(n, m)]
                ELSE [IdleReq EXCEPT !.pc = "limit", !.all = RowList(n)]]
  /\ proc = [r \in Requests |-> << >>]
  /\ InitStore
  /\ client = IdleClient
  /\ faults = 0
  /\ starts = [r \in Requests |-> 0]

NextDedup ==
  \/ \E r \in Requests : DedupApplied(r)
  \/ \E r \in Requests : LimitApplied(r)

SpecDedup == InitDedup /\ [][NextDedup]_vars

\* The texts a client may send for a coordinate; "" stands for a missing
\* parameter (searchParams.get(..) || "").
LatTexts == {<<"0">>, <<"0", "x">>, <<"x">>, << >>}
LonTexts == {<<"0">>, <<"-">>}

\* One client, any of the coordinate texts, around a place without photos
\* (c3) or where the search has four pages (c4).
InitInput ==
  /\ now = 0
  /\ apiKey = TRUE
  /\ reqIn \in {[r \in Requests |-> [center |-> c, radius |-> <<"1", "0", "0", "0">>, lat |-> la, lon |-> lo]] :
                  c \in {"c3", "c4"}, la \in LatTexts, lo \in LonTexts}
  /\ req = [r \in Requests |-> IdleReq]
  /\ proc = [r \in Requests |-> << >>]
  /\ InitStore
  /\ client = IdleClient
  /\ faults = MaxFaults
  /\ starts = [r \in Requests |-> IF r = "r1" THEN 2 ELSE 0]

SpecInput == InitInput /\ [][Next]_vars

\* What a request in flight waits for: the store, the provider, a timer.
Returns ==
  \/ \E r \in Requests : GeoLookup(r)
  \/ \E r \in Requests : PageReturns(r)
  \/ \E r \in Requests : DelayElapses(r)
  \/ \E r \in Requests : BatchSettled(r)
  \/ \E r \in Requests : \E k \in DOMAIN proc[r] : SelectReturns(r, k)
  \/ \E r \in Requests : \E k \in DOMAIN proc[r] : DetailsReturns(r, k)
  \/ \E r \in Requests : \E k \in DOMAIN proc[r] : PhotoReturns(r, k)
  \/ \E r \in Requests : \E k \in DOMAIN proc[r] : PhotoBodyReturns(r, k)
  \/ \E r \in Requests : \E k \in DOMAIN proc[r] : RetryDelayElapses(r, k)
  \/ \E r \in Requests : \E k \in DOMAIN proc[r] : PlaceWriteReturns(r, k)
  \/ \E r \in Requests : \E k \in DOMAIN proc[r] : UpsertReturns(r, k)
  \/ \E r \in Requests : \E k \in DOMAIN proc[r] : PhotoUpsertReturns(r, k)

\* Two requests of one client, for a centre with one place or for one
\* where the provider serves four pages.
InitLive ==
  /\ now = 0
  /\ apiKey = TRUE
  /\ reqIn \in {[r \in Requests |-> Input(c)] : c \in {"c3", "c4"}}
  /\ req = [r \in Requests |-> IdleReq]
  /\ proc = [r \in Requests |-> << >>]
  /\ InitStore
  /\ client = IdleClient
  /\ faults = MaxFaults
  /\ starts = [r \in Requests |-> IF r = "r1" THEN 2 ELSE 0]

\* Every call that was issued is answered and every timer that was armed
\* fires.
SpecLive == InitLive /\ [][Next]_vars /\ WF_vars(Returns)

\* The texts a client may send for the radius: in range, too small, too
\* large, missing (""), not a number.
RadiusTexts == {<<"1", "0", "0", "0">>, <<"5">>, <<"9", "9", "9", "9">>, << >>, <<"x">>}

\* Two clients at the same coordinate: the first asks for the widest radius,
\* the second sends any of the radius texts once the first has its answer.
\* The search finds a place 222 m away and one 2224 m away (0.02 degrees
\* north).
InitGeo ==
  /\ now = 0
  /\ apiKey = TRUE
  /\ reqIn \in {[r \in Requests |->
                   [center |-> "c7", lat |-> <<"0">>, lon |-> <<"0">>,
                    radius |-> IF r = "r1" THEN <<"9", "9", "9", "9">> ELSE t]] :
                  t \in RadiusTexts}
  /\ req = [r \in Requests |-> IdleReq]
  /\ proc = [r \in Requests |-> << >>]
  /\ InitStore
  /\ client = IdleClient
  /\ faults = GeoFaults
  /\ starts = [r \in Requests |-> 1]

NextGeo ==
  \/ GetStart("r1")
  \/ req["r1"].pc = "done" /\ GetStart("r2")
  \/ \E r \in Requests : GeoLookup(r)
  \/ \E r \in Requests : PageReturns(r)
  \/ \E r \in Requests : BatchSettled(r)
  \/ \E r \in Requests : \E k \in DOMAIN proc[r] : SelectReturns(r, k)
  \/ \E r \in Requests : \E k \in DOMAIN proc[r] : ProcessPlaceThrows(r, k)
  \/ \E r \in Requests : \E k \in DOMAIN proc[r] : DetailsReturns(r, k)
  \/ \E r \in Requests : \E k \in DOMAIN proc[r] : PhotoReturns(r, k)
  \/ \E r \in Requests : \E k \in DOMAIN proc[r] : PhotoTimeout(r, k)
  \/ \E r \in Requests : \E k \in DOMAIN proc[r] : PhotoBodyReturns(r, k)
  \/ \E r \in Requests : \E k \in DOMAIN proc[r] : TenSecondsPass(r, k)
  \/ \E r \in Requests : \E k \in DOMAIN proc[r] : RetryDelayElapses(r, k)
  \/ \E r \in Requests : \E k \in DOMAIN proc[r] : UpsertReturns(r, k)
  \/ \E r \in Requests : \E k \in DOMAIN proc[r] : PhotoUpsertReturns(r, k)
  \/ Tick

SpecGeo == InitGeo /\ [][NextGeo]_vars

InitClient ==
  /\ now = 0
  /\ apiKey = TRUE
  /\ reqIn = [r \in Requests |-> Input("c1")]
  /\ req = [r \in Requests |-> IdleReq]
  /\ proc = [r \in Requests |-> << >>]
  /\ InitStore
  /\ faults = 0
  /\ starts = [r \in Requests |-> 0]
  /\ client \in {[IdleClient EXCEPT !.view = v] : v \in Views}

NextScore == LoadSaved \/ ScoreOne

\* The scorer by itself: any saved list, any candidate.
SpecScore == InitClient /\ [][NextScore]_vars

NextRecs == LoadSaved \/ RecsStart \/ RecsReturn

\* A page that loads its saved list and asks for recommendations.
SpecRecs == InitClient /\ [][NextRecs]_vars

NextProfile == LoadMixed

\* extractPreferences by itself: any mixed saved list.
SpecProfile == InitClient /\ [][NextProfile]_vars

NextParse == \E distance \in DistanceTexts : ParseCall(distance)

\* The main page, from which the recommendations page is opened.
InitHome ==
  /\ now = 0
  /\ apiKey = TRUE
  /\ reqIn = [r \in Requests |-> Input("c1")]
  /\ req = [r \in Requests |-> IdleReq]
  /\ proc = [r \in Requests |-> << >>]
  /\ InitStore
  /\ faults = 0
  /\ starts = [r \in Requests |-> 0]
  /\ client = IdleClient

NextStorage == SavedChanges \/ LocationFound \/ OpenRecommendations \/ PageRestore

SpecStorage == InitHome /\ [][NextStorage]_vars

\* The distance parser by itself: up to MaxCalls calls in a page.
SpecParse == InitClient /\ [][NextParse]_vars

\* One request over six candidates, two batches, with the clock at rest.
InitBatch ==
  /\ now = 0
  /\ apiKey = TRUE
  /\ reqIn = [r \in Requests |-> Input("c6")]
  /\ req = [r \in Requests |-> IdleReq]
  /\ proc = [r \in Requests |-> << >>]
  /\ InitStore
  /\ client = IdleClient
  /\ faults = BatchFaults
  /\ starts = [r \in Requests |-> IF r = "r1" THEN 1 ELSE 0]

NextBatch ==
  \/ \E r \in Requests : GetStart(r)
  \/ \E r \in Requests : GeoLookup(r)
  \/ \E r \in Requests : PageReturns(r)
  \/ \E r \in Requests : BatchSettled(r)
  \/ \E r \in Requests : \E k \in DOMAIN proc[r] : SelectReturns(r, k)
  \/ \E r \in Requests : \E k \in DOMAIN proc[r] : ProcessPlaceThrows(r, k)
  \/ \E r \in Requests : \E k \in DOMAIN proc[r] : DetailsReturns(r, k)
  \/ \E r \in Requests : \E k \in DOMAIN proc[r] : PhotoReturns(r, k)
  \/ \E r \in Requests : \E k \in DOMAIN proc[r] : PhotoTimeout(r, k)
  \/ \E r \in Requests : \E k \in DOMAIN proc[r] : PhotoBodyReturns(r, k)
  \/ \E r \in Requests : \E k \in DOMAIN proc[r] : TenSecondsPass(r, k)
  \/ \E r \in Requests : \E k \in DOMAIN proc[r] : RetryDelayElapses(r, k)
  \/ \E r \in Requests : \E k \in DOMAIN proc[r] : PlaceWriteReturns(r, k)
  \/ \E r \in Requests : \E k \in DOMAIN proc[r] : UpsertReturns(r, k)
  \/ \E r \in Requests : \E k \in DOMAIN proc[r] : PhotoUpsertReturns(r, k)

SpecBatch == InitBatch /\ [][NextBatch]_vars

\* ------------------------------------------------------------- claims
ProcIds == {<<r, k>> \in Requests \X (1..Len(PlaceOrder)) : k \in DOMAIN proc[r]}
P(id) == proc[id[1]][id[2]]

\* C1: the cache lookup of a request never returns a record whose
\* expires_at is earlier than the time at which the request issued it.
C1_LookupReturnsNoExpired ==
  \A r \in Requests : \A n \in 1..Len(req[r].cached) :
    ~(req[r].cached[n].exp < req[r].lookupAt)

\* A lookup issued after time has passed returned a cached record.
C1_Witness ==
  \E r \in Requests : req[r].lookupAt > 0 /\ Len(req[r].cached) > 0

\* C2: an enrichment that reads the record of a place after a record with
\* a cover was stored for it, and before the expires_at stored with that
\* cover, issues no upstream call and no store write.
C2_FreshPhotoRecordIsServed ==
  \A id \in ProcIds : P(id).pre => P(id).calls = 0 /\ P(id).writes = 0

\* C3: an enrichment that ends with the fallback image, no photo having
\* been obtainable, has issued the upsert of the place record.
C3_ZeroPhotosStillWritten ==
  \A id \in ProcIds :
    (P(id).pc = "fulfilled" /\ P(id).result.image = Fallback(P(id).place))
      => P(id).writes > 0

\* C4: a request with numeric coordinates and a configured credential ends
\* with a successful response, whichever upstream calls failed.
C4_RequestNeverFails ==
  \A r \in Requests :
    (req[r].pc = "done" /\ CoordsFinite(reqIn[r]) /\ apiKey) => req[r].status = 200

\* C5: when a request has ended, every place whose enrichment fulfilled is
\* in the response, whatever was rejected in its batch, and every place of
\* every batch has been processed.
C5_RejectionIsIsolated ==
  \A r \in Requests :
    req[r].pc = "done" =>
      \A k \in DOMAIN proc[r] :
        /\ proc[r][k].pc \in {"fulfilled", "rejected"}
        /\ proc[r][k].pc = "fulfilled" =>
             \E n \in 1..Len(req[r].stores) :
               /\ req[r].stores[n].id = proc[r][k].place
               /\ req[r].stores[n].image = proc[r][k].result.image

\* A request ended with a rejected and a fulfilled place in its first batch
\* and a fulfilled place in its second.
C5_Witness ==
  \E r \in Requests :
    /\ req[r].pc = "done" /\ Len(req[r].places) > BATCH_SIZE
    /\ \E k, j \in 1..BATCH_SIZE :
         proc[r][k].pc = "rejected" /\ proc[r][j].pc = "fulfilled"
    /\ proc[r][BATCH_SIZE + 1].pc = "fulfilled"
    /\ Len(req[r].stores) = Len(req[r].places) - 1

\* The upstream calls (place details, photo fetches) a request has in flight.
InFlight(r) == Cardinality({k \in DOMAIN proc[r] : proc[r][k].pc \in {"details", "photo", "photo_body"}})

\* C6: a request never has more than 5 upstream calls in flight in its
\* enrichment stage.
C6_AtMostFiveInFlight == \A r \in Requests : InFlight(r) <= 5

\* Five calls in flight at once, photo fetches and details calls among them.
C6_Witness ==
  \E r \in Requests :
    /\ InFlight(r) = 5
    /\ \E k, j \in DOMAIN proc[r] : proc[r][k].pc = "photo" /\ proc[r][j].pc = "details"

\* C7: a place of a later batch is started only when every place of the
\* earlier batches has fulfilled or rejected.
C7_BatchesInSequence ==
  \A r \in Requests : \A k, j \in DOMAIN proc[r] :
    ((j - 1) \div 5 < (k - 1) \div 5 /\ proc[r][k].pc # "idle")
      => proc[r][j].pc \in {"fulfilled", "rejected"}

\* A place of the second batch is being enriched.
C7_Witness ==
  \E r \in Requests : \E k \in DOMAIN proc[r] :
    k > 5 /\ proc[r][k].pc \in {"select", "details", "upsert0"}

Primaries(p) == {x \in Refs : place_photos[p][x] = "primary"}
Enriching(p) ==
  \E id \in ProcIds : P(id).place = p /\ P(id).pc \notin {"idle", "fulfilled", "rejected"}

\* C8: between enrichment cycles, the stored photo assets of a place have
\* no second primary asset, and the primary asset is the cover of the place.
C8_OnePrimaryTheCover ==
  \A p \in Places :
    ~Enriching(p) =>
      /\ Cardinality(Primaries(p)) <= 1
      /\ \A x \in Primaries(p) : places[p].coverRef = x

\* C9: no step lowers the stored expires_at of a place.
C9_ExpiryNeverDecreases ==
  [][\A p \in Places : places[p].present => places'[p].exp >= places[p].exp]_vars

\* C10: when the store answers an upsert with an error, the enrichment goes
\* on and returns what it fetched (cover, gallery, details), or the fallback
\* and the details when the place had no photo; the place is not rejected
\* and the request does not fail.
C10_WriteFailureNotFatal ==
  [][\A r \in Requests :
       /\ \A j \in DOMAIN proc'[r] :
            proc'[r][j].wfail => proc'[r][j].pc # "rejected" /\ req'[r].status \in {0, 200}
       /\ \A k \in DOMAIN proc[r] :
            LET q == proc[r][k] IN
            (/\ k \in DOMAIN proc'[r]
             /\ q.pc \in {"upsert", "photo_upsert", "upsert0"}
             /\ proc'[r][k] # q
             /\ faults' # faults)
            => /\ proc'[r][k].pc \in {"photo_upsert", "fulfilled"}
               /\ proc'[r][k].pc = "photo_upsert" => proc'[r][k].entries = q.entries
               /\ proc'[r][k].pc = "fulfilled" =>
                    /\ proc'[r][k].result.id = q.place
                    /\ proc'[r][k].result.phone = q.det.phone
                    /\ proc'[r][k].result.hours = q.det.hours
                    /\ IF q.pc = "upsert0"
                       THEN /\ proc'[r][k].result.image = Fallback(q.place)
                            /\ proc'[r][k].result.gallery = << >>
                       ELSE /\ proc'[r][k].result.image = Img(q.entries[1])
                            /\ Len(proc'[r][k].result.gallery) = Len(q.entries) - 1
                            /\ \A n \in 1..(Len(q.entries) - 1) :
                                 proc'[r][k].result.gallery[n] = Img(q.entries[n + 1])]_vars

\* An enrichment whose place upsert failed has returned the fetched cover,
\* and its request has answered with it.
C10_Witness ==
  \E r \in Requests : \E k \in DOMAIN proc[r] :
    /\ proc[r][k].wfail /\ proc[r][k].pc = "fulfilled"
    /\ proc[r][k].result.image = "data_a"
    /\ places[proc[r][k].place].cover = Null
    /\ req[r].pc = "done" /\ req[r].status = 200
    /\ \E n \in 1..Len(req[r].stores) : req[r].stores[n].image = "data_a"

\* The places with a cover and a last_updated_at within 30 days: what the
\* cache lookup has to offer around the places of the model.
CachedNear ==
  {p \in Places : places[p].present /\ places[p].cover # Null /\ places[p].lu > now - 30}

\* C11: when the credential is absent, a request issues no upstream call,
\* and when it ends it has answered with success and with every candidate
\* the cache holds, each with its category fallback image and no detail.
C11_NoCredentialServesFallback ==
  [][\A r \in Requests :
       (~apiKey /\ CoordsFinite(reqIn[r]) /\ req'[r] # req[r]) =>
         /\ req'[r].pc \notin {"page", "delay"}
         /\ \A k \in DOMAIN proc'[r] : proc'[r][k].pc \notin {"details", "photo", "photo_body"}
         /\ (req'[r].pc = "done" /\ Cardinality(CachedNear) >= 5) =>
              /\ req'[r].status = 200
              /\ \A p \in CachedNear : \E n \in 1..Len(req'[r].stores) :
                   /\ req'[r].stores[n].id = p
                   /\ req'[r].stores[n].image = Fallback(p)
                   /\ req'[r].stores[n].phone = Null]_vars

\* C12: a request whose cache lookup returned at least 5 records has
\* issued no nearby-search page request and has the cached records, in the
\* order returned, as its candidates.
C12_EnoughCachedSkipsSearch ==
  \A r \in Requests :
    Len(req[r].cached) >= 5 =>
      /\ req[r].pc \notin {"page", "delay"}
      /\ req[r].page = 0 /\ req[r].all = << >>
      /\ Len(req[r].places) = Len(req[r].cached)
      /\ \A n \in 1..Len(req[r].cached) : req[r].places[n].id = req[r].cached[n].id

\* A request is enriching the five places its cache lookup returned.
C12_Witness ==
  \E r \in Requests :
    /\ req[r].pc = "batch" /\ Len(req[r].cached) = 5
    /\ \E k \in DOMAIN proc[r] : proc[r][k].pc = "select"

\* C13: a request issues at most 3 nearby-search page requests; a page after
\* the first is requested only from the 2 second pause, which is entered
\* only with the continuation token of the page before.
C13_PagesBoundedAndDelayed ==
  [][\A r \in Requests :
       req'[r].page # req[r].page =>
         \/ req'[r].page = 0
         \/ req[r].page = 0 /\ req'[r].page = 1
         \/ /\ req'[r].page = req[r].page + 1 /\ req'[r].page <= 3
            /\ req[r].pc = "delay" /\ req[r].token /\ req[r].timer = 2000]_vars

\* The third page is in flight where the provider has a fourth.
C13_Witness ==
  \E r \in Requests :
    /\ req[r].pc = "page" /\ req[r].page = 3
    /\ Len(NearbyPages(reqIn[r].center)) > 3

\* A step in which an enrichment gives a photo reference up: the attempt in
\* flight fails and no further attempt at the same reference follows.
GivenUp(q, q1) ==
  /\ q.pc \in {"photo", "photo_body"} /\ q1 # q
  /\ \/ q1.pc = "fulfilled"
     \/ q1.pc \in {"photo", "upsert"} /\ q1.entries = q.entries

\* C14: the candidates of a request, and the places of its response, never
\* hold the same place id twice and are never more than 60.
C14_CandidatesDistinctAtMostSixty ==
  \A r \in Requests :
    /\ Len(req[r].places) <= 60 /\ Len(req[r].stores) <= 60
    /\ \A n, j \in 1..Len(req[r].places) :
         req[r].places[n].id = req[r].places[j].id => n = j
    /\ \A n, j \in 1..Len(req[r].stores) :
         req[r].stores[n].id = req[r].stores[j].id => n = j

\* More than 60 search results with repeated and more than 60 distinct
\* ids were reduced to 60 candidates, and so were more than 60 cache rows.
C14_Witness ==
  /\ req["r1"].pc = "deduped" /\ Len(req["r1"].all) > 60
  /\ \E n, j \in 1..Len(req["r1"].all) : n # j /\ req["r1"].all[n].id = req["r1"].all[j].id
  /\ Len(req["r1"].places) = 60
  /\ req["r2"].pc = "limited" /\ Len(req["r2"].all) > 60 /\ Len(req["r2"].places) = 60

\* C15: a photo reference is given up only after 3 attempts, the initial
\* one and 2 retries.
C15_DroppedAfterThreeAttempts ==
  [][\A r \in Requests : \A k \in DOMAIN proc[r] :
       (k \in DOMAIN proc'[r] /\ GivenUp(proc[r][k], proc'[r][k]))
         => proc[r][k].tries = 3]_vars

\* C16: when a photo reference is given up and the place has further
\* references, the next one is fetched; an enrichment that fetched photos
\* returns the first one fetched as the cover, one that fetched none the
\* category fallback; no place of a response is without an image.
C16_DroppedPhotoKeepsPlace ==
  [][\A r \in Requests :
       /\ \A n \in 1..Len(req'[r].stores) : req'[r].stores[n].image # Null
       /\ \A k \in DOMAIN proc[r] :
            LET q == proc[r][k] IN
            k \in DOMAIN proc'[r] =>
              /\ (GivenUp(q, proc'[r][k]) /\ q.i < Min(4, Len(q.photos)))
                   => /\ proc'[r][k].pc = "photo"
                      /\ proc'[r][k].i = q.i + 1
                      /\ proc'[r][k].entries = q.entries
              /\ (q.pc \in {"photo", "photo_body"} /\ proc'[r][k].pc = "fulfilled")
                   => /\ q.entries = << >>
                      /\ proc'[r][k].result.image = Fallback(q.place)
              /\ (q.pc \in {"upsert", "photo_upsert"} /\ proc'[r][k].pc = "fulfilled")
                   => proc'[r][k].result.image = Img(q.entries[1])]_vars

\* A response carries, as the cover of a place, its second photo: the
\* first was given up.
C16_Witness ==
  \E r \in Requests :
    /\ req[r].pc = "done" /\ req[r].status = 200
    /\ \E n \in 1..Len(req[r].stores) :
         req[r].stores[n].id = "p1" /\ req[r].stores[n].image = "data_b"

\* C17: no photo fetch is still in flight 10 seconds after it was issued.
C17_NoFetchOutlivesTimeout ==
  \A id \in ProcIds :
    P(id).pc \in {"photo", "photo_body"} => P(id).elapsed < 10000

\* C18: an enrichment that read a fresh record with phone, website, opening
\* hours and reviews never issues the place-details call.
C18_CompleteRecordSkipsDetails ==
  [][\A r \in Requests : \A k \in DOMAIN proc[r] :
       (/\ k \in DOMAIN proc'[r]
        /\ proc[r][k].pc # "details"
        /\ proc'[r][k].pc = "details")
       => LET ex == proc'[r][k].existing IN
          ~(/\ ex.present /\ ex.exp > now
            /\ ex.phone # Null /\ ex.website # Null
            /\ ex.hours # Null /\ ex.reviews # Null)]_vars

\* An enrichment read a fresh complete record without cover and went on to
\* its write without any upstream call.
C18_Witness ==
  \E id \in ProcIds :
    /\ P(id).pc = "upsert0" /\ P(id).calls = 0
    /\ P(id).existing.present /\ P(id).existing.exp > now
    /\ P(id).existing.phone # Null /\ P(id).existing.reviews # Null

IsNumericText(text) ==
  LET body == IF text # << >> /\ Head(text) \in {"-", "+"} THEN Tail(text) ELSE text IN
  /\ body # << >>
  /\ \A n \in 1..Len(body) : body[n] \in {"0", "1", "2", "3", "4", "5", "6", "7", "8", "9"}

\* C20: a request whose lat or lon text is not numeric is answered with
\* the error 400 and never gets as far as the cache lookup.
C20_NonNumericRejected ==
  \A r \in Requests :
    (~IsNumericText(reqIn[r].lat) \/ ~IsNumericText(reqIn[r].lon)) =>
      \/ req[r].pc = "idle"
      \/ req[r].pc = "done" /\ req[r].status = 400

\* C21: while a request that passed the coordinate validation is looking up
\* the cache, searching or enriching, the radius it uses lies in
\* [200, 5000] meters, whatever radius text was sent.
C21_RadiusWithinBounds ==
  \A r \in Requests :
    req[r].pc \in {"lookup", "page", "delay", "batch"} =>
      /\ ~req[r].radius.nan
      /\ req[r].radius.val >= 200
      /\ req[r].radius.val <= 5000

\* The same for the radius texts that begin with a number.
C21_NumericRadiusWithinBounds ==
  \A r \in Requests :
    (req[r].pc \in {"lookup", "page", "delay", "batch"} /\ ~Radius(reqIn[r]).nan) =>
      /\ ~req[r].radius.nan
      /\ req[r].radius.val >= 200
      /\ req[r].radius.val <= 5000

C23_PhotosGalleryReviewsCapped ==
  /\ \A id \in ProcIds :
       LET q == P(id) IN
       /\ Cardinality({q.photos[n] : n \in 1..q.i}) <= 4
       /\ Len(q.entries) <= 4
       /\ q.pc = "fulfilled" =>
            Len(q.result.gallery) <= 3 /\ ReviewCount(q.result.reviews) <= 5
  /\ \A r \in Requests : \A n \in 1..Len(req[r].stores) :
       /\ Len(req[r].stores[n].gallery) <= 3
       /\ ReviewCount(req[r].stores[n].reviews) <= 5

\* A place with five photo references and seven reviews was returned from
\* the cache, without an upstream call, with three gallery images and five
\* reviews.
C23_Witness ==
  \E id \in ProcIds :
    /\ P(id).pc = "fulfilled" /\ P(id).calls = 0
    /\ Len(NearbyPhotos(P(id).place)) = 5
    /\ ReviewCount(DetailsData(P(id).place).reviews) = 7
    /\ Len(P(id).result.gallery) = 3
    /\ ReviewCount(P(id).result.reviews) = 5

\* The additive model of the scorer, signal by signal, each under its own
\* condition only; in units of 1/300 point.
AdditiveCuisine(restaurant, preferences) ==
  LET count == CountOf(preferences.favoriteCuisines, restaurant.cuisine) IN
  IF count >= 3 THEN 25 * 300
  ELSE IF count > 0 THEN 8 * count * 300
  ELSE IF preferences.totalSaved > 0 THEN 0 - 2 * 300
  ELSE 0

AdditiveRating(restaurant, preferences) ==
  LET avg == preferences.avgRating IN
  IF ~IsNumber(restaurant.rating) \/ restaurant.rating[1] <= 0 THEN 0
  ELSE IF avg.num > 0
  THEN LET diff == Abs(restaurant.rating[1] * avg.den - avg.num) IN
       (IF diff < 5 * avg.den THEN 20 * 300
        ELSE IF diff < 10 * avg.den THEN 12 * 300 ELSE 5 * 300)
       + (IF avg.num >= 40 * avg.den /\ restaurant.rating[1] >= 45 THEN 8 * 300 ELSE 0)
  ELSE 3 * restaurant.rating[1] * 30

AdditiveSocialProof(restaurant) ==
  IF IsNumber(restaurant.ratingCount) /\ restaurant.ratingCount[1] > 100
  THEN (IF restaurant.ratingCount[1] < 900 THEN restaurant.ratingCount[1] ELSE 900)
  ELSE 0

AdditiveDistance(meters, preferences) ==
  LET avg == preferences.avgDistance IN
  IF meters.null \/ avg.num <= 0 THEN 0
  ELSE LET diff == Abs(meters.mm * avg.den - avg.num) IN
       (IF diff < 500000 * avg.den THEN 15 * 300
        ELSE IF diff < 1000000 * avg.den THEN 10 * 300 ELSE 0)
       + (IF avg.num < 1000000 * avg.den /\ meters.mm < 1500000 THEN 12 * 300 ELSE 0)

AdditiveProximity(meters) ==
  IF meters.null THEN 0
  ELSE IF meters.mm < 500000 THEN 10 * 300
  ELSE IF meters.mm < 1000000 THEN 7 * 300
  ELSE IF meters.mm < 2000000 THEN 4 * 300
  ELSE IF meters.mm < 5000000 THEN 300
  ELSE 0

AdditivePrice(restaurant, preferences) ==
  LET count == CountOf(preferences.preferredPriceLevels, restaurant.priceLevel) IN
  IF ~IsNumber(restaurant.priceLevel) THEN 0
  ELSE IF count > 0 THEN 5 * count * 300
  ELSE IF preferences.totalSaved > 0 THEN 0 - 300
  ELSE 0

AdditiveSpice(restaurant, preferences) ==
  3 * CountOf(preferences.preferredSpiceLevels, restaurant.spiceLevel) * 300

AdditiveDiversity(restaurant, preferences) ==
  IF /\ preferences.totalSaved >= 5
     /\ CountOf(preferences.favoriteCuisines, restaurant.cuisine) = 0
  THEN 2 * 300 ELSE 0

AdditiveFlags(restaurant) ==
  (IF restaurant.isNew THEN 3 * 300 ELSE 0) + (IF restaurant.openNow THEN 5 * 300 ELSE 0)

IsScenarioA(saved, restaurant) ==
  /\ Len(saved) = 1
  /\ saved[1].cuisine = "Italian" /\ saved[1].rating = <<45>>
  /\ saved[1].distance = Km05 /\ saved[1].priceLevel = <<2>>
  /\ restaurant.cuisine = "Italian" /\ restaurant.rating = <<46>>
  /\ restaurant.distance = Km06 /\ restaurant.priceLevel = <<2>>
  /\ restaurant.ratingCount = <<150>> /\ restaurant.spiceLevel = ""
  /\ ~restaurant.isNew /\ ~restaurant.openNow

\* C24: the score of a candidate is the sum of the signals of the additive
\* model, each applied whenever its own condition holds; the score of
\* scenario A is 75.5.
C24_ScoreIsSumOfSignals ==
  \A n \in 1..Len(client.scored) :
    LET restaurant == client.scored[n].restaurant
        preferences == client.preferences
        meters == parseDistanceToMeters(client.view, restaurant.distance)
    IN
    /\ client.scored[n].score =
         AdditiveCuisine(restaurant, preferences) + AdditiveRating(restaurant, preferences)
           + AdditiveSocialProof(restaurant) + AdditiveDistance(meters, preferences)
           + AdditiveProximity(meters) + AdditivePrice(restaurant, preferences)
           + AdditiveSpice(restaurant, preferences)
           + AdditiveDiversity(restaurant, preferences) + AdditiveFlags(restaurant)
    /\ IsScenarioA(client.saved, restaurant) => client.scored[n].score = 22650

\* The score of scenario A is 75.5.
C24_ScenarioA ==
  \A n \in 1..Len(client.scored) :
    IsScenarioA(client.saved, client.scored[n].restaurant) =>
      client.scored[n].score = 22650

\* Scenario A has been scored.
C24_ScenarioAScored ==
  \E n \in 1..Len(client.scored) : IsScenarioA(client.saved, client.scored[n].restaurant)

\* The score is the sum of the signals for the candidates that have a
\* rating, a distance other than 0 and, when the profile is empty, no
\* price level.
C24_SumWhereSignalsAreFree ==
  \A n \in 1..Len(client.scored) :
    LET restaurant == client.scored[n].restaurant
        preferences == client.preferences
        meters == parseDistanceToMeters(client.view, restaurant.distance)
    IN
    (/\ IsNumber(restaurant.rating) \/ ~IsNumber(restaurant.ratingCount)
     /\ meters.null \/ meters.mm > 0
     /\ preferences.totalSaved > 0 \/ ~IsNumber(restaurant.priceLevel)) =>
      client.scored[n].score =
         AdditiveCuisine(restaurant, preferences) + AdditiveRating(restaurant, preferences)
           + AdditiveSocialProof(restaurant) + AdditiveDistance(meters, preferences)
           + AdditiveProximity(meters) + AdditivePrice(restaurant, preferences)
           + AdditiveSpice(restaurant, preferences)
           + AdditiveDiversity(restaurant, preferences) + AdditiveFlags(restaurant)

\* The terms of a score with the all-zero profile: no cuisine, price or
\* spice term, a rating term of rating x 3 (beside the social proof), a
\* distance term that is the proximity band.
EmptyProfileTerms(view, restaurant, preferences) ==
  LET meters == parseDistanceToMeters(view, restaurant.distance)
      rated == IsNumber(restaurant.rating) /\ restaurant.rating[1] > 0
  IN
  /\ CuisineScore(restaurant, preferences) = 0
  /\ PriceScore(restaurant, preferences) = 0
  /\ SpiceScore(restaurant, preferences) = 0
  /\ RatingScore(restaurant, preferences) =
       IF rated THEN 3 * restaurant.rating[1] * 30 + AdditiveSocialProof(restaurant) ELSE 0
  /\ DistanceScore(view, restaurant, preferences) = AdditiveProximity(meters)

\* C25: with an empty saved list the cuisine, price-level and spice-level
\* terms of any candidate are 0, its rating term is rating x 3 and its
\* distance term is the absolute-proximity band alone.
C25_EmptyProfileNoPenalty ==
  \A n \in 1..Len(client.scored) :
    Len(client.saved) = 0 =>
      /\ EmptyProfileTerms(client.view, client.scored[n].restaurant, client.preferences)
      /\ client.scored[n].score =
           scoreRecommendation(client.view, client.scored[n].restaurant, client.preferences)

\* The same for the candidates without a price level and with a distance
\* other than 0.
C25_EmptyProfileWithoutPrice ==
  \A n \in 1..Len(client.scored) :
    (/\ Len(client.saved) = 0
     /\ ~IsNumber(client.scored[n].restaurant.priceLevel)
     /\ client.scored[n].restaurant.distance # M0) =>
      EmptyProfileTerms(client.view, client.scored[n].restaurant, client.preferences)

\* The profile with the count of one cuisine set to k, all else as it is.
WithCuisineCount(preferences, cuisine, k) ==
  [preferences EXCEPT !.favoriteCuisines =
     [c \in (DOMAIN preferences.favoriteCuisines \ {cuisine})
              \cup (IF k > 0 THEN {cuisine} ELSE {}) |->
        IF c = cuisine THEN k ELSE preferences.favoriteCuisines[c]]]

\* C26: with every other input fixed the score does not decrease when the
\* count of the candidate's cuisine in the profile grows, and from a count
\* of 3 on the cuisine term is +25: the score is that of count 3, which is
\* 25 - 16 = 9 points above that of count 2.
C26_MonotoneInCuisineCount ==
  \A n \in 1..Len(client.scored) :
    LET restaurant == client.scored[n].restaurant
        score(k) == scoreRecommendation(client.view, restaurant,
                      WithCuisineCount(client.preferences, restaurant.cuisine, k))
    IN
    restaurant.cuisine # "" =>
      /\ client.scored[n].score =
           score(CountOf(client.preferences.favoriteCuisines, restaurant.cuisine))
      /\ \A k \in 0..(MaxCount - 1) : score(k) <= score(k + 1)
      /\ \A k \in 3..MaxCount : score(k) = score(3)
      /\ score(3) - score(2) = 9 * 300
      /\ score(2) - score(1) = 8 * 300

\* A candidate was scored whose cuisine the profile has counted three times
\* or more.
C26_Witness ==
  \E n \in 1..Len(client.scored) :
    /\ client.scored[n].restaurant.cuisine # ""
    /\ CountOf(client.preferences.favoriteCuisines, client.scored[n].restaurant.cuisine) >= 3

\* C27: in the list of recommendations a candidate whose score is more than
\* 0.1 above that of another stands before it.
C27_HigherScoreFirst ==
  \A i, j \in 1..Len(client.recommendations) :
    client.recommendations[i].score - client.recommendations[j].score > 30 => i < j

\* The same for lists of at most two recommendations.
C27_HigherScoreFirstOfTwo ==
  Len(client.recommendations) <= 2 =>
    \A i, j \in 1..Len(client.recommendations) :
      client.recommendations[i].score - client.recommendations[j].score > 30 => i < j

\* Two recommendations whose scores are within 0.1 of each other.
Tied(a, b) == Abs(a.score - b.score) <= 30

\* a goes before b by the tie-break: the higher rating, then the smaller
\* parsed distance, a parseable distance before an unparseable one.
TieBreakBefore(view, a, b) ==
  LET distA == parseDistanceToMeters(view, a.restaurant.distance)
      distB == parseDistanceToMeters(view, b.restaurant.distance)
  IN
  \/ RatingOrZero(a.restaurant) > RatingOrZero(b.restaurant)
  \/ /\ RatingOrZero(a.restaurant) = RatingOrZero(b.restaurant)
     /\ ~distA.null
     /\ distB.null \/ distA.mm < distB.mm

\* C28: of two recommendations whose scores are within 0.1 of each other
\* the one with the higher rating stands first; with equal ratings the one
\* with the smaller parsed distance, and one with a parseable distance
\* before one without.
C28_TiesByRatingThenDistance ==
  \A i, j \in 1..Len(client.recommendations) :
    (/\ Tied(client.recommendations[i], client.recommendations[j])
     /\ TieBreakBefore(client.view, client.recommendations[i], client.recommendations[j]))
      => i < j

\* The same for lists of at most two recommendations.
C28_TiesOfTwo ==
  Len(client.recommendations) <= 2 =>
    \A i, j \in 1..Len(client.recommendations) :
      (/\ Tied(client.recommendations[i], client.recommendations[j])
       /\ TieBreakBefore(client.view, client.recommendations[i], client.recommendations[j]))
        => i < j

\* C29: a list of recommendations made from a response has at most 20
\* entries, none of them a place whose id is in the saved list, and it has
\* every place of the response that is not saved when these are 20 or fewer.
C29_AtMostTwentyUnsaved ==
  LET recs == client.recommendations
      savedIds == {client.saved[n].id.text : n \in 1..Len(client.saved)}
      unsaved == {k \in 1..Len(client.all) : client.all[k].id.text \notin savedIds}
  IN
  /\ Len(recs) <= 20
  /\ \A n \in 1..Len(recs) : recs[n].restaurant.id.text \notin savedIds
  /\ \A n \in 1..Len(recs) : \E k \in unsaved : recs[n].restaurant = client.all[k]
  /\ (client.pc = "shown" /\ Cardinality(unsaved) <= 20) =>
       \A k \in unsaved : \E n \in 1..Len(recs) : recs[n].restaurant = client.all[k]

\* Twenty recommendations are shown from a response that lists more than
\* twenty unsaved places and some saved ones.
C29_Witness ==
  /\ client.pc = "shown"
  /\ Len(client.recommendations) = 20
  /\ Len(client.all) > 20 + Len(client.saved)
  /\ \E k \in 1..Len(client.all), n \in 1..Len(client.saved) :
       client.all[k].id.text = client.saved[n].id.text

\* C30: no field of a profile is NaN; the profile of the empty list has
\* zero aggregates and empty maps; in the profile of a list without a
\* usable rating the average rating is 0, without a usable distance the
\* average distance is 0.
C30_ProfileNeverNaN ==
  LET p == client.preferences
      saved == client.saved
      all == 1..Len(saved)
  IN
  /\ ~p.avgRating.nan /\ ~p.avgDistance.nan
  /\ p.avgRating.den > 0 /\ p.avgDistance.den > 0
  /\ p.totalSaved = Len(saved)
  /\ Len(saved) = 0 =>
       /\ p.avgRating.num = 0 /\ p.avgDistance.num = 0
       /\ DOMAIN p.favoriteCuisines = {} /\ DOMAIN p.preferredPriceLevels = {}
       /\ DOMAIN p.preferredSpiceLevels = {}
  /\ (\A n \in all : saved[n].rating = Undefined) => p.avgRating.num = 0
  /\ (\A n \in all : parseFloat(toLowerCase(saved[n].distance)).nan) => p.avgDistance.num = 0

\* The profile of a list of saved places none of which has a rating or a
\* distance that can be read.
C30_Witness ==
  /\ client.pc = "ready"
  /\ Len(client.saved) > 0
  /\ \A n \in 1..Len(client.saved) :
       /\ client.saved[n].rating = Undefined
       /\ parseFloat(toLowerCase(client.saved[n].distance)).nan

\* ------------------------------------------------------------------ C31
\* The sum, as doubles and in the order of the list, of the ratings that
\* are defined.
RECURSIVE SumOfDefinedRatings(_, _)
SumOfDefinedRatings(saved, n) ==
  IF n = 0 THEN NoDouble
  ELSE IF IsNumber(saved[n].rating)
       THEN AddDouble(SumOfDefinedRatings(saved, n - 1), toDouble(saved[n].rating[1]))
       ELSE SumOfDefinedRatings(saved, n - 1)

MeanOfDefinedRatings(saved) ==
  LET defined == {n \in 1..Len(saved) : IsNumber(saved[n].rating)} IN
  IF defined = {} THEN NoDouble
  ELSE DivideDouble(SumOfDefinedRatings(saved, Len(saved)), Cardinality(defined))

MeanOfParsedDistances(view, saved) ==
  LET all == 1..Len(saved)
      meters == [n \in all |-> parseDistanceToMeters(view, saved[n].distance)]
      parsed == {n \in all : ~meters[n].null}
  IN IF parsed = {} THEN Zero
     ELSE Divide(SumOver(parsed, [n \in all |-> meters[n].mm]), Cardinality(parsed))

\* C31: for a saved list that is not empty, avgRating is the mean of the
\* ratings of exactly the entries whose rating is defined, and avgDistance
\* the mean of the distances of exactly the entries whose distance can be
\* parsed.
C31_AveragesOverDefinedValues ==
  (client.pc = "ready" /\ Len(client.saved) > 0) =>
    /\ client.preferences.avgRating = MeanOfDefinedRatings(client.saved)
    /\ client.preferences.avgDistance = MeanOfParsedDistances(client.view, client.saved)

\* What does hold: the averages are over the entries whose rating is above
\* 0 and whose distance can be parsed.
C31_AveragesOverPositiveRatings ==
  (client.pc = "ready" /\ Len(client.saved) > 0) =>
    /\ client.preferences.avgRating =
         MeanOfDefinedRatings(SelectSeq(client.saved, IsRated))
    /\ client.preferences.avgDistance = MeanOfParsedDistances(client.view, client.saved)

\* ------------------------------------------------------------------ C32
Orders(n) == {q \in [1..n -> 1..n] : \A i, j \in 1..n : q[i] = q[j] => i = j}

\* C32: extractPreferences returns the same profile for every permutation
\* of the saved list.
C32_SameProfileForEveryOrder ==
  client.pc = "ready" =>
    \A q \in Orders(Len(client.saved)) :
       extractPreferences(client.view, [i \in 1..Len(client.saved) |-> client.saved[q[i]]])
         = client.preferences

\* What does hold: the counts, the totals and the average distance do not
\* depend on the order; the average rating may differ in its last bit.
C32_SameCountsForEveryOrder ==
  client.pc = "ready" =>
    \A q \in Orders(Len(client.saved)) :
       LET other == extractPreferences(client.view,
                       [i \in 1..Len(client.saved) |-> client.saved[q[i]]])
       IN /\ [other EXCEPT !.avgRating = NoDouble]
               = [client.preferences EXCEPT !.avgRating = NoDouble]
          /\ other.avgRating.num = client.preferences.avgRating.num
          /\ other.avgRating.den = client.preferences.avgRating.den

\* ------------------------------------------------------------------ C33
\* The unit token of a text: the lowercased word after the number.
UnitToken(text) ==
  LET lower == toLowerCase(text)
      spaces == {n \in 1..Len(lower) : lower[n] = " "}
      first == IF spaces = {} THEN Len(lower) + 1
               ELSE CHOOSE n \in spaces : \A m \in spaces : n <= m
      later == {n \in spaces : n > first}
      next == IF later = {} THEN Len(lower) + 1
              ELSE CHOOSE n \in later : \A m \in later : n <= m
  IN SubSeq(lower, first + 1, next - 1)

MetersByUnit(number, token) ==
  IF number.nan THEN NoMeters
  ELSE IF token \in {<<"m", "i">>, <<"m", "i", "l", "e">>, <<"m", "i", "l", "e", "s">>}
  THEN Times(number, 1609340)
  ELSE IF token = <<"k", "m">> THEN Times(number, 1000000)
  ELSE IF token = <<"m">> THEN Times(number, 1000)
  ELSE NoMeters

\* C33: for a number followed by a unit, the parser returns the number
\* times 1609.34 for miles, times 1000 for kilometers, the number for
\* meters; without a number in front it returns null.
C33_UnitsInOrderMilesKmMeters ==
  (client.calls > 0 /\ client.asked # << >>) =>
    client.returned = MetersByUnit(parseFloat(toLowerCase(client.asked)), UnitToken(client.asked))

\* What does hold: the parser of the main page resolves the units so.
C33_UnitsOnMainPage ==
  (client.view = "home" /\ client.calls > 0 /\ client.asked # << >>) =>
    client.returned = MetersByUnit(parseFloat(toLowerCase(client.asked)), UnitToken(client.asked))

\* ------------------------------------------------------------------ C34
\* C34: in the recommendations page a text goes through the parse at most
\* once, however often it is asked for; its entry in distanceCache stays
\* and holds what the parse gives, and every call returns that value.
C34_ParsedOncePerText ==
  client.view = "page" =>
    /\ \A t \in DistanceTexts :
         /\ client.parseCount[t] <= 1
         /\ client.parseCount[t] = 1 <=> t \in DOMAIN client.distanceCache
    /\ \A t \in DOMAIN client.distanceCache :
         client.distanceCache[t] = parseDistanceToMeters("page", t)
    /\ client.calls > 0 => client.returned = parseDistanceToMeters("page", client.asked)

\* Three calls with one text, which was parsed once.
C34_Witness ==
  /\ client.view = "page"
  /\ client.calls >= 3
  /\ DOMAIN client.distanceCache = {client.asked}
  /\ client.parseCount[client.asked] = 1

\* ------------------------------------------------------------------ C35
\* A write to the record of a place keeps what the record held.
KeepsStored(p) ==
  places[p].present =>
    /\ \A f \in DOMAIN NoDetails : places[p][f] # Null => places'[p][f] # Null
    /\ places[p].cover # Null => places'[p].cover # Null
    /\ Len(places[p].gallery) > 0 => Len(places'[p].gallery) > 0

\* C35: when a place that has a record is enriched again, no stored detail
\* field (phone, website, opening hours, reviews) and neither the stored
\* cover nor the gallery is erased or replaced by null, whatever the
\* details call and the photo fetches gave.  The place is one whose record
\* the request has read and found expired.
C35_ReenrichmentKeepsStoredFields ==
  [][\A r \in Requests : \A k \in DOMAIN proc[r] :
       (/\ proc[r][k].pc \in {"upsert0", "upsert", "update"}
        /\ proc[r][k].existing.present /\ ~proc[r][k].valid
        /\ places'[proc[r][k].place] # places[proc[r][k].place])
         => KeepsStored(proc[r][k].place)]_vars

\* ------------------------------------------------------------------ C36
\* The record a request has read is one a photo-less write left, and it
\* has not expired.
ReadZeroPhotoRecord(q) ==
  q.existing.present /\ q.existing.cover = Null /\ Len(q.existing.gallery) = 0 /\ q.valid

\* C36: a request that reads the unexpired record of a place for which no
\* photo could be obtained does not call the place-details or the photo
\* endpoint for the place.
C36_ZeroPhotoPlaceNotFetchedAgain ==
  [][\A r \in Requests : \A k \in DOMAIN proc[r] :
       (/\ proc[r][k].pc = "select"
        /\ k \in DOMAIN proc'[r]
        /\ ReadZeroPhotoRecord(proc'[r][k]))
         => proc'[r][k].calls = proc[r][k].calls]_vars

\* ------------------------------------------------------------------ C37
\* The calls of a request stay within their limits.
CallsBounded ==
  \A r \in Requests :
    /\ req[r].page <= 1 + MAX_EXTRA_PAGES
    /\ req[r].pc = "batch" => (req[r].i \div BATCH_SIZE) + 1 <= 12
    /\ \A k \in DOMAIN proc[r] :
         /\ proc[r][k].pc = "details" => proc[r][k].calls = 1
         /\ proc[r][k].calls <= 1 + MAX_PHOTOS * PHOTO_RETRIES
         /\ proc[r][k].tries <= PHOTO_RETRIES

\* The place-details call of a place is issued when its record has been
\* read, and at no other time.
DetailsOnce ==
  \A r \in Requests : \A k \in DOMAIN proc[r] :
    (k \in DOMAIN proc'[r] /\ proc'[r][k].pc = "details")
      => proc[r][k].pc \in {"select", "details"}

\* C37: when every call is answered and every timer fires, every request
\* gets its response, after at most 3 nearby-search calls, at most 12
\* batches, one place-details call per place and at most 2 attempts at
\* each of at most 4 photos.
C37_EveryRequestAnswered ==
  /\ []CallsBounded
  /\ [][DetailsOnce]_vars
  /\ \A r \in Requests : (req[r].pc \notin {"idle", "done"}) ~> (req[r].pc = "done")

\* The third search page has been read, a fourth was on offer, and a photo
\* is at its second attempt.
C37_Witness ==
  \E r \in Requests :
    /\ reqIn[r].center = "c4"
    /\ req[r].pc = "batch"
    /\ req[r].page = 1 + MAX_EXTRA_PAGES
    /\ \E k \in DOMAIN proc[r] : proc[r][k].tries = PHOTO_RETRIES

\* ------------------------------------------------------------------ C38
\* C38: a response of the search lists the places by their distance in
\* meters from the query coordinate, nearest first, and isNew is set on the
\* first place and on no other.
C38_ResponseByDistance ==
  \A r \in Requests :
    (req[r].pc = "done" /\ req[r].status = 200) =>
      /\ \A n \in 1..(Len(req[r].stores) - 1) :
           req[r].stores[n].dist <= req[r].stores[n + 1].dist
      /\ \A n \in 1..Len(req[r].stores) : req[r].stores[n].isNew <=> n = 1

\* What does hold: the places are in the order of the number their distance
\* text begins with, and isNew is on the first of the list.
C38_ResponseByLeadingNumber ==
  \A r \in Requests :
    (req[r].pc = "done" /\ req[r].status = 200) =>
      /\ \A n \in 1..(Len(req[r].stores) - 1) :
           getMeters(req[r].stores[n].dist) <= getMeters(req[r].stores[n + 1].dist)
      /\ \A n \in 1..Len(req[r].stores) : req[r].stores[n].isNew <=> n = 1

\* ------------------------------------------------------------------ C39
\* C39: when the main page has stored a saved list and a location, the
\* recommendations page restores that list and that location.
C39_PageRestoresWhatHomeStored ==
  (/\ client.view = "page" /\ client.pc = "ready"
   /\ client.storage["hihungry_saved_restaurants"] # << >>
   /\ client.storage["hihungry_user_location"] # << >>)
    => /\ client.saved = client.storage["hihungry_saved_restaurants"][1]
       /\ client.userLocation

====
